---------------------------- MODULE Spec2Model ----------------------------
(***************************************************************************)
(* Session orchestrator: Sessions / InstancePool / Usage tables, the       *)
(* create-session, get-session-status, terminate-session and heartbeat     *)
(* handlers and the pool-manager (reconciler) passes.                      *)
(*                                                                         *)
(* Every request handler is a process whose steps are its state-store      *)
(* calls, so that concurrent invocations interleave where the Lambdas can. *)
(* A pool-manager pass is a sequence of steps, one per session or tier it  *)
(* handles; the writes it makes for one item are one step.                 *)
(* State-store calls succeed; cloud and gateway answers are inputs.        *)
(* Time is in seconds; the clock only moves in the steps a specification   *)
(* allows.                                                                 *)
(***************************************************************************)
EXTENDS Integers, FiniteSets, Sequences, TLC

\* ------------------------------------------------------------- universe
Owners    == {"u1", "u2", "u3"}
Plans     == {"freemium", "pro"}
Instances == {"iA", "iB", "iC"}
Fleet     == {"iA", "iB"}  \* the instances in play unless a seed names more
Callers   == {"c1", "c2", "c3"}

MaxSid   == 3        \* session ids are 1..MaxSid, 0 is "no session"
MaxClock == 15100    \* the clock stops here
MaxInFlight == 2     \* invocations in flight at once, where a specification limits them
MaxAuthClock == 500  \* the clock stops here where tokens are presented
TokenExpires == 400  \* expiry of the tokens presented, issued at the initial clock
MaxIdleClock == 4100 \* the clock stops here where idle time is watched
IdleStep == 1000     \* seconds between two looks at an idle session

SessionIds == 1..MaxSid

\* ------------------------------------------------------ program constants
SESSION_TTL_HOURS == 4
MAX_SESSIONS      == 1
max_allocation_retries == 3
MIN_BILLABLE_SECONDS == 30
READY_TIMEOUT_FALLBACK == 120
PROVISIONING_TIMEOUT == 480
IDLE_HEARTBEAT_GRACE_PERIOD == 120
QUOTA_FREEMIUM == 300
QUOTA_UNLIMITED == -1
max_nonce_age == 300
STALE_ASSIGNMENT == 3600
MAX_SCALE_STEP == 2

DEFAULT_PLAN_LIMITS(p) == IF p = "freemium" THEN QUOTA_FREEMIUM ELSE QUOTA_UNLIMITED

IDLE_THRESHOLDS(p) ==
    IF p = "pro" THEN [warning |-> 1800, termination |-> 3600]
    ELSE IF p = "starter" THEN [warning |-> 1200, termination |-> 2400]
    ELSE [warning |-> 900, termination |-> 1800]

ActiveStatuses == {"pending", "provisioning", "ready", "active"}
Running        == {"ready", "active"}
Dead           == {"terminated", "error"}

VARIABLES
    sessions,     \* Sessions table: session id -> record (status "absent" = no row)
    pool,         \* InstancePool table: instance id -> record
    usage,        \* Usage table, current month: owner -> consumed_minutes
    usageCount,   \* Usage table, current month: owner -> session_count
    nextSid,      \* next fresh session id (generate_session_id)
    ec2,          \* cloud: instance id -> state name
    health,       \* cloud: instance id -> status checks all passed
    asg,          \* cloud: instance id -> tier of the group it is InService in, or "none"
    cap,          \* cloud: tier -> [min, max, desired]
    now,          \* wall clock, seconds
    cs,           \* create-session invocations: caller -> locals
    gs,           \* get-session-status invocation locals
    ds,           \* terminate-session invocation locals
    hb,           \* heartbeat invocation locals
    rc,           \* pool-manager invocation locals
    hist          \* history: what has been observed so far (never read by the program)

vars == <<sessions, pool, usage, usageCount, nextSid, ec2, health, asg, cap, now,
          cs, gs, ds, hb, rc, hist>>

tables == <<sessions, pool, usage, usageCount>>
cloud  == <<ec2, health, asg, cap>>

\* ------------------------------------------------------------ records
NoSession ==
    [status |-> "absent", student_id |-> "none", plan |-> "none",
     instance_id |-> "none", instance_ip |-> FALSE, conn_id |-> FALSE,
     created_at |-> 0, expires_at |-> 0,
     last_active_at |-> -1, last_heartbeat_at |-> -1,
     idle_warning_sent_at |-> FALSE, termination_reason |-> "none",
     updated_at |-> 0]

NoPool ==
    [status |-> "absent", plan |-> "none", session_id |-> 0, student_id |-> "none",
     assigned_at |-> 0]

\* inst.get("plan", "pro"): a record without a plan counts as pro
PlanOf(rec) == IF rec.plan = "none" THEN "pro" ELSE rec.plan

\* DynamoDBClient.update_item on the pool: SET of the given attributes; a missing
\* row is created holding only those attributes.
PoolRelease(i, st) ==
    [pool EXCEPT ![i] = [@ EXCEPT !.status = st, !.session_id = 0,
                                   !.student_id = "none"]]

PoolSetStatus(i, st) == [pool EXCEPT ![i].status = st]

\* DynamoDBClient.put_item on the pool: the whole row is replaced.
PoolPut(i, st, sid, o, p, t) ==
    [pool EXCEPT ![i] = [status |-> st, plan |-> p, session_id |-> sid,
                          student_id |-> o, assigned_at |-> t]]

\* variant: a claim write that is applied whatever the stored status is
MutConditionHolds(i) == TRUE

\* DynamoDBClient.conditional_update with "#status = :available": whether the
\* write is applied.
ConditionHolds(i) == pool[i].status = "available"

PoolClaim(i, sid, o, t) ==
    [pool EXCEPT ![i] = [@ EXCEPT !.status = "assigned", !.session_id = sid,
                                   !.student_id = o, !.assigned_at = t]]

\* query_by_index("StatusIndex", "status", AVAILABLE) filtered to the plan
AvailableFor(p) ==
    {i \in Instances : pool[i].status = "available" /\ PlanOf(pool[i]) = p}

\* query_by_index("StudentIndex", ...) filtered to the active statuses
ActiveSessionsOf(o) ==
    {s \in SessionIds : sessions[s].student_id = o
                        /\ sessions[s].status \in ActiveStatuses}

\* ------------------------------------------------------------ usage
\* variant: a request exactly at the quota is let through
MutQuotaAllowed(o, quota) ==
    quota = QUOTA_UNLIMITED \/ quota - usage[o] >= 0

\* UsageTracker.check_quota: allowed
QuotaAllowed(o, quota) ==
    quota = QUOTA_UNLIMITED \/ quota - usage[o] > 0

\* variant: the usage write overwrites consumed_minutes instead of adding to it
MutAddUsage(o, minutes) == [usage EXCEPT ![o] = minutes]

\* UsageTracker.add_usage_minutes: ADD consumed_minutes :minutes, session_count :one
AddUsage(o, minutes) == [usage EXCEPT ![o] = @ + minutes]

\* the handlers' "duration_minutes >= 0.5" guard and int(duration_minutes)
Billable(created, t) == t - created >= MIN_BILLABLE_SECONDS

Minutes(created, t) == (t - created) \div 60


\* ------------------------------------------------------------ sessions
\* DynamoDBClient.update_item on Sessions: SET status (and what goes with it)
SetStatus(s, st, t) ==
    [sessions EXCEPT ![s] = [@ EXCEPT !.status = st, !.updated_at = t]]

\* variant: the prior session is left terminating, without a reason
MutTerminate(s, reason, t) == SetStatus(s, "terminating", t)

\* the terminated write of cleanup_stale_session and of the pool-manager passes
Terminate(s, reason, t) ==
    [sessions EXCEPT ![s] = [@ EXCEPT !.status = "terminated",
                                       !.termination_reason = reason,
                                       !.updated_at = t]]

\* history: the sessions whose stored status has been terminated at some time
NoteTerminated(tbl) ==
    [hist EXCEPT !.terminated = @ \cup {s \in SessionIds : tbl[s].status = "terminated"}]

\* history: a conditional available-to-assigned write on instance i succeeded for s
NoteClaim(s, i) == [hist EXCEPT !.claimed = @ \cup {<<s, i>>}]

\* history: the orphan pass released the instances of I
NoteReleased(I) == [hist EXCEPT !.released = @ \cup I]

\* ------------------------------------------------- Moodle token verification
\* A token is base64(payload).hmac(key, payload): key is the secret it was signed
\* with, the other fields are its payload.  nonce 0 stands for a payload without one.
NoToken == [key |-> "", user |-> "none", plan |-> "none", expires |-> 0, nonce |-> 0]

\* MoodleTokenVerifier(secret): a verifier starts with no nonce seen
MoodleTokenVerifier(secret) == [secret |-> secret, used_nonces |-> {}]

\* verify_token: TRUE when the payload is returned, FALSE when None is
VerifyToken(verifier, tok, t) ==
    /\ tok # NoToken
    /\ verifier.secret # ""
    /\ tok.key = verifier.secret
    /\ ~(t > tok.expires)
    /\ ~(tok.nonce # 0 /\ tok.nonce \in verifier.used_nonces)

\* verify_moodle_request: the token of the event, checked by a verifier built for
\* this request
VerifyMoodleRequest(tok, secret, t) ==
    tok # NoToken /\ VerifyToken(MoodleTokenVerifier(secret), tok, t)

\* history: the latest heartbeat of session s carried focus_mode = f
NoteFocus(s, f) == [hist EXCEPT !.focus = IF f THEN @ \cup {s} ELSE @ \ {s}]

\* history: a token with nonce n was accepted at time t
NoteAccepted(n, t) == [hist EXCEPT !.accepted = @ \cup {<<n, t>>}]


\* ------------------------------------------------- create-session handler
CsIdle ==
    [pc |-> "idle", owner |-> "none", plan |-> "none", quota |-> 0, sid |-> 0,
     cands |-> {}, attempt |-> 0, inst |-> "none", ip |-> FALSE, kind |-> "none",
     at |-> 0, old |-> 0, oldInst |-> "none", probe |-> "none",
     code |-> 0, rstatus |-> "none", rsid |-> 0, rinst |-> "none", reused |-> FALSE,
     env |-> [require |-> FALSE, secret |-> ""], token |-> NoToken, body |-> "none",
     verified |-> FALSE]

\* success_response / error_response: the invocation ends, its locals are gone
Return(c, code, st, sid, inst, reused) ==
    [cs EXCEPT ![c] = [CsIdle EXCEPT !.owner = cs[c].owner, !.plan = cs[c].plan,
                                      !.quota = cs[c].quota, !.old = cs[c].old,
                                      !.probe = cs[c].probe, !.env = cs[c].env,
                                      !.token = cs[c].token, !.body = cs[c].body,
                                      !.verified = cs[c].verified,
                                      !.code = code, !.rstatus = st, !.rsid = sid,
                                      !.rinst = inst, !.reused = reused]]

InFlightWithoutSid == {c \in Callers : cs[c].pc # "idle" /\ cs[c].sid = 0}

\* lines 428-452: plan and quota resolved from the token, quota check
CS_Start(c, o, p, q) ==
    /\ cs[c].pc = "idle"
    /\ nextSid + Cardinality(InFlightWithoutSid) <= MaxSid
    /\ LET fresh == [CsIdle EXCEPT !.owner = o, !.plan = p, !.quota = q]
       IN  IF QuotaAllowed(o, q)
           THEN cs' = [cs EXCEPT ![c] = [fresh EXCEPT !.pc = "existing"]]
           ELSE cs' = [cs EXCEPT ![c] = [fresh EXCEPT !.code = 403]]
    /\ UNCHANGED <<tables, nextSid, cloud, now, gs, ds, hb, rc, hist>>

\* resolve_plan_info: the plan of the payload, freemium without one
ResolvePlan(tok, verified) ==
    IF verified /\ tok.plan # "none" THEN tok.plan ELSE "freemium"

\* lines 382-452: create_session called with the header token tok (NoToken: no
\* header) and the body's student_id ("none": missing), under the environment
\* of the container; authentication, identity, plan and quota check
CS_Auth(c, tok, body) ==
    /\ cs[c].pc = "idle"
    /\ nextSid + Cardinality(InFlightWithoutSid) <= MaxSid
    /\ LET env      == cs[c].env
           checked  == tok # NoToken /\ env.secret # ""
           verified == checked /\ VerifyMoodleRequest(tok, env.secret, now)
           o        == IF verified THEN tok.user ELSE body
           p        == ResolvePlan(tok, verified)
           q        == DEFAULT_PLAN_LIMITS(p)
           fresh    == [CsIdle EXCEPT !.env = env, !.token = tok, !.body = body,
                                     !.verified = verified]
           called   == [fresh EXCEPT !.owner = o, !.plan = p, !.quota = q]
       IN  /\ IF (checked /\ ~verified /\ env.require) \/ (tok = NoToken /\ env.require)
              THEN cs' = [cs EXCEPT ![c] = [fresh EXCEPT !.code = 401]]
              ELSE IF o = "none"
              THEN cs' = [cs EXCEPT ![c] = [fresh EXCEPT !.code = 400]]
              ELSE IF QuotaAllowed(o, q)
              THEN cs' = [cs EXCEPT ![c] = [called EXCEPT !.pc = "existing"]]
              ELSE cs' = [cs EXCEPT ![c] = [called EXCEPT !.code = 403]]
           /\ hist' = IF verified THEN NoteAccepted(tok.nonce, now) ELSE hist
    /\ UNCHANGED <<tables, nextSid, cloud, now, gs, ds, hb, rc>>

\* lines 460-535: existing active session of the owner: reuse it or reap it
CS_Existing(c) ==
    /\ cs[c].pc = "existing"
    /\ LET act == ActiveSessionsOf(cs[c].owner)
       IN  IF Cardinality(act) >= MAX_SESSIONS
           THEN \E s \in act, connected \in BOOLEAN :
                  LET reuse == Return(c, 200, sessions[s].status, s,
                                      sessions[s].instance_id, TRUE)
                      reap  == [cs EXCEPT ![c] = [@ EXCEPT !.pc = "reap_sess", !.old = s,
                                   !.oldInst = sessions[s].instance_id,
                                   !.probe = IF sessions[s].conn_id THEN "absent"
                                                                    ELSE "noconn"]]
                  IN  IF sessions[s].conn_id
                      THEN IF connected
                           THEN cs' = [reuse EXCEPT ![c].old = s, ![c].probe = "connected"]
                           ELSE cs' = reap
                      ELSE /\ connected = FALSE
                           /\ IF sessions[s].status \in {"pending", "provisioning"}
                              THEN cs' = [reuse EXCEPT ![c].old = s]
                              ELSE cs' = reap
           ELSE cs' = [cs EXCEPT ![c].pc = "put"]
    /\ UNCHANGED <<tables, nextSid, cloud, now, gs, ds, hb, rc, hist>>

\* cleanup_stale_session, lines 199-209: the prior session is marked terminated
CS_ReapSession(c) ==
    /\ cs[c].pc = "reap_sess"
    /\ sessions' = Terminate(cs[c].old, "stale_guacamole_logout", now)
    /\ hist' = NoteTerminated(sessions')
    /\ cs' = [cs EXCEPT ![c].pc = IF cs[c].oldInst # "none" THEN "reap_pool" ELSE "put"]
    /\ UNCHANGED <<pool, usage, usageCount, nextSid, cloud, now, gs, ds, hb, rc>>

\* cleanup_stale_session, lines 212-223: its instance goes back to the pool
CS_ReapPool(c) ==
    /\ cs[c].pc = "reap_pool"
    /\ pool' = PoolRelease(cs[c].oldInst, "available")
    /\ cs' = [cs EXCEPT ![c].pc = "put"]
    /\ UNCHANGED <<sessions, usage, usageCount, nextSid, cloud, now, gs, ds, hb, rc, hist>>

\* lines 537-562: fresh session id, Sessions record in pending
CS_Put(c) ==
    /\ cs[c].pc = "put"
    /\ nextSid <= MaxSid
    /\ sessions' = [sessions EXCEPT ![nextSid] =
                      [NoSession EXCEPT !.status = "pending",
                                        !.student_id = cs[c].owner,
                                        !.plan = cs[c].plan,
                                        !.created_at = now,
                                        !.updated_at = now,
                                        !.expires_at = now + SESSION_TTL_HOURS * 3600]]
    /\ nextSid' = nextSid + 1
    /\ cs' = [cs EXCEPT ![c] = [@ EXCEPT !.pc = "query", !.sid = nextSid, !.at = now]]
    /\ UNCHANGED <<pool, usage, usageCount, cloud, now, gs, ds, hb, rc, hist>>

\* lines 570-585 and 644-654: (re-)query the available instances of the plan
CS_Query(c) ==
    /\ cs[c].pc = "query"
    /\ LET A == AvailableFor(cs[c].plan)
       IN  cs' = [cs EXCEPT ![c] = [@ EXCEPT !.cands = A,
                                     !.pc = IF A = {} THEN "cold" ELSE "claim"]]
    /\ UNCHANGED <<tables, nextSid, cloud, now, gs, ds, hb, rc, hist>>

\* variant: the candidate is claimed without asking the cloud for its state
MutCS_Claim(c, i) ==
    /\ cs[c].pc = "claim"
    /\ i \in cs[c].cands
    /\ LET rest  == cs[c].cands \ {i}
           next  == IF rest # {} THEN [cs[c] EXCEPT !.cands = rest]
                    ELSE IF cs[c].attempt < max_allocation_retries - 1
                    THEN [cs[c] EXCEPT !.cands = {}, !.attempt = @ + 1, !.pc = "query"]
                    ELSE [cs[c] EXCEPT !.cands = {}, !.pc = "cold"]
       IN  IF ConditionHolds(i)
           THEN /\ pool' = PoolClaim(i, cs[c].sid, cs[c].owner, cs[c].at)
                /\ hist' = NoteClaim(cs[c].sid, i)
                /\ cs' = [cs EXCEPT ![c] = [@ EXCEPT !.cands = {}, !.inst = i,
                                             !.ip = TRUE, !.pc = "commit"]]
           ELSE /\ pool' = pool
                /\ hist' = hist
                /\ cs' = [cs EXCEPT ![c] = next]
    /\ UNCHANGED <<sessions, usage, usageCount, nextSid, cloud, now, gs, ds, hb, rc>>

\* lines 588-642: one candidate of the claim loop
CS_Claim(c, i) ==
    /\ cs[c].pc = "claim"
    /\ i \in cs[c].cands
    /\ LET rest  == cs[c].cands \ {i}
           next  == IF rest # {} THEN [cs[c] EXCEPT !.cands = rest]
                    ELSE IF cs[c].attempt < max_allocation_retries - 1
                    THEN [cs[c] EXCEPT !.cands = {}, !.attempt = @ + 1, !.pc = "query"]
                    ELSE [cs[c] EXCEPT !.cands = {}, !.pc = "cold"]
       IN  IF ec2[i] # "running"
           THEN /\ pool' = PoolSetStatus(i, "unhealthy")
                /\ hist' = hist
                /\ cs' = [cs EXCEPT ![c] = next]
           ELSE IF ConditionHolds(i)
           THEN /\ pool' = PoolClaim(i, cs[c].sid, cs[c].owner, cs[c].at)
                /\ hist' = NoteClaim(cs[c].sid, i)
                /\ cs' = [cs EXCEPT ![c] = [@ EXCEPT !.cands = {}, !.inst = i,
                                             !.ip = TRUE, !.pc = "commit"]]
           ELSE /\ pool' = pool
                /\ hist' = hist
                /\ cs' = [cs EXCEPT ![c] = next]
    /\ UNCHANGED <<sessions, usage, usageCount, nextSid, cloud, now, gs, ds, hb, rc>>

\* DynamoDBClient.conditional_update, lines 206-246: its return value; holds: the
\* condition is met, io: the call ends in another ClientError
conditional_update(holds, io) == ~io /\ holds

\* lines 633-640: the caller after a failed claim of candidate i: the next
\* candidate, or the next attempt, or the cold start
AfterFailedClaim(c, i) ==
    LET rest == cs[c].cands \ {i}
    IN  IF rest # {} THEN [cs[c] EXCEPT !.cands = rest]
        ELSE IF cs[c].attempt < max_allocation_retries - 1
        THEN [cs[c] EXCEPT !.cands = {}, !.attempt = @ + 1, !.pc = "query"]
        ELSE [cs[c] EXCEPT !.cands = {}, !.pc = "cold"]

\* lines 588-642: one candidate of the claim loop whose conditional update ends
\* in an I/O error
CS_ClaimIO(c, i) ==
    /\ cs[c].pc = "claim"
    /\ i \in cs[c].cands
    /\ ec2[i] = "running"
    /\ ~conditional_update(ConditionHolds(i), TRUE)
    /\ cs' = [cs EXCEPT ![c] = AfterFailedClaim(c, i)]
    /\ UNCHANGED <<tables, nextSid, cloud, now, gs, ds, hb, rc, hist>>

\* variant: every running group member may be taken
MutCanUse(i) == TRUE

\* lines 713-728: can_use for a running group member
CanUse(i) ==
    \/ pool[i].status = "absent"
    \/ pool[i].status = "available"
    \/ /\ pool[i].status \in {"starting", "assigned"}
       /\ pool[i].session_id # 0
       /\ sessions[pool[i].session_id].status \in Dead \cup {"absent"}

\* what the cold-start loop would do with group member i of the plan's group
ColdKind(i) ==
    IF ec2[i] = "stopped" /\ pool[i].status # "assigned" THEN "start"
    ELSE IF ec2[i] = "running" /\ CanUse(i) THEN "assign"
    ELSE "skip"

GroupOf(p) == {i \in Instances : asg[i] = p}

\* get_asg_for_plan: the group of a plan; a plan without a configured group falls
\* back to the first configured one (freemium, then starter, then pro).  Plans are
\* the tiers with a configured group
get_asg_for_plan(p) == IF p \in Plans THEN p ELSE "freemium"

\* lines 656-678: walk the plan's group for a member to start or to take
CS_Cold(c) ==
    /\ cs[c].pc = "cold"
    /\ LET usable == {i \in GroupOf(get_asg_for_plan(cs[c].plan)) : ColdKind(i) # "skip"}
       IN  IF usable = {}
           THEN cs' = [cs EXCEPT ![c].pc = "scale"]
           ELSE \E i \in usable :
                  cs' = [cs EXCEPT ![c] = [@ EXCEPT !.pc = "cold_put", !.inst = i,
                                                    !.kind = ColdKind(i)]]
    /\ UNCHANGED <<tables, nextSid, cloud, now, gs, ds, hb, rc, hist>>

\* lines 679-706 (start, put starting, session provisioning) and 730-743 (put assigned)
CS_ColdPut(c) ==
    /\ cs[c].pc = "cold_put"
    /\ LET i == cs[c].inst
       IN  IF cs[c].kind = "start"
           THEN /\ ec2' = [ec2 EXCEPT ![i] = IF @ = "stopped" THEN "pending" ELSE @]
                /\ health' = [health EXCEPT ![i] = IF ec2[i] = "stopped" THEN FALSE ELSE @]
                /\ pool' = PoolPut(i, "starting", cs[c].sid, cs[c].owner, cs[c].plan,
                                   cs[c].at)
                /\ sessions' = [SetStatus(cs[c].sid, "provisioning", cs[c].at)
                                  EXCEPT ![cs[c].sid].instance_id = i]
                /\ cs' = [cs EXCEPT ![c] = [@ EXCEPT !.pc = "commit", !.ip = FALSE]]
           ELSE /\ pool' = PoolPut(i, "assigned", cs[c].sid, cs[c].owner, cs[c].plan,
                                   cs[c].at)
                /\ cs' = [cs EXCEPT ![c] = [@ EXCEPT !.pc = "commit", !.ip = TRUE]]
                /\ UNCHANGED <<ec2, health, sessions>>
    /\ UNCHANGED <<usage, usageCount, nextSid, asg, cap, now, gs, ds, hb, rc, hist>>

\* variant: a group at its maximum still counts as having room
MutBelowMax(k) == k.desired <= k.max

\* line 748: capacity["desired"] < capacity["max"]
BelowMax(k) == k.desired < k.max

\* lines 745-784: nothing claimed and nothing to start: scale up, or 503 at max
CS_Scale(c) ==
    /\ cs[c].pc = "scale"
    /\ LET p == get_asg_for_plan(cs[c].plan)
           s == cs[c].sid
       IN  IF BelowMax(cap[p])
           THEN \E ok \in BOOLEAN :
                  IF ok
                  THEN /\ cap' = [cap EXCEPT ![p].desired = @ + 1]
                       /\ sessions' = SetStatus(s, "provisioning", cs[c].at)
                       /\ cs' = Return(c, 200, "provisioning", s, "none", FALSE)
                  ELSE /\ cs' = [cs EXCEPT ![c].pc = "commit"]
                       /\ UNCHANGED <<cap, sessions>>
           ELSE /\ sessions' = SetStatus(s, "error", cs[c].at)
                /\ cs' = Return(c, 503, "error", 0, "none", FALSE)
                /\ cap' = cap
    /\ UNCHANGED <<pool, usage, usageCount, nextSid, ec2, health, asg, now, gs, ds, hb,
                   rc, hist>>

\* lines 786-860: gateway programming and the final Sessions write
CS_Commit(c) ==
    /\ cs[c].pc = "commit"
    /\ LET s == cs[c].sid
       IN  IF cs[c].ip
           THEN \E programmed \in BOOLEAN :
                  /\ sessions' = [SetStatus(s, "ready", cs[c].at) EXCEPT
                                    ![s].instance_id = cs[c].inst,
                                    ![s].instance_ip = TRUE,
                                    ![s].conn_id = programmed]
                  /\ cs' = Return(c, 200, "ready", s, cs[c].inst, FALSE)
           ELSE /\ sessions' = [SetStatus(s, "provisioning", cs[c].at) EXCEPT
                                  ![s].instance_id = cs[c].inst]
                /\ cs' = Return(c, 200, "provisioning", s, cs[c].inst, FALSE)
    /\ UNCHANGED <<pool, usage, usageCount, nextSid, cloud, now, gs, ds, hb, rc, hist>>

CreateSession(c) ==
    \/ CS_Existing(c)
    \/ CS_ReapSession(c)
    \/ CS_ReapPool(c)
    \/ CS_Put(c)
    \/ CS_Query(c)
    \/ \E i \in Instances : CS_Claim(c, i)
    \/ CS_Cold(c)
    \/ CS_ColdPut(c)
    \/ CS_Scale(c)
    \/ CS_Commit(c)

\* --------------------------------------------- get-session-status handler
Pollers == {"g1"}

GsIdle ==
    [pc |-> "idle", sid |-> 0, orig |-> "none", st |-> "none", inst |-> "none",
     ip |-> FALSE, conn |-> FALSE, claimed |-> "none"]

\* get_session_by_id lines 113-119 and enrich_session_status lines 206-218:
\* read the session, expiry check, decide whether to allocate
GS_Read(g, s) ==
    /\ gs[g].pc = "idle"
    /\ sessions[s].status # "absent"
    /\ LET r    == sessions[s]
           loc  == [GsIdle EXCEPT !.sid = s, !.orig = r.status, !.st = r.status,
                                  !.inst = r.instance_id, !.ip = r.instance_ip,
                                  !.conn = r.conn_id]
       IN  gs' = [gs EXCEPT ![g] =
                 IF now > r.expires_at
                 THEN [loc EXCEPT !.st = "terminated", !.pc = "persist"]
                 ELSE IF r.instance_id = "none" /\ r.status = "provisioning"
                 THEN [loc EXCEPT !.pc = "alloc"]
                 ELSE [loc EXCEPT !.pc = "live"]]
    /\ UNCHANGED <<tables, nextSid, cloud, now, cs, ds, hb, rc, hist>>

\* enrich_session_status lines 229-275: claim the first available instance of the plan
GS_Alloc(g) ==
    /\ gs[g].pc = "alloc"
    /\ LET s == gs[g].sid
           A == AvailableFor(PlanOf(sessions[s]))
       IN  IF A = {}
           THEN /\ gs' = [gs EXCEPT ![g].pc = "asg"]
                /\ UNCHANGED <<pool, hist>>
           ELSE \E i \in A :
                  IF ec2[i] = "running" /\ ConditionHolds(i)
                  THEN /\ pool' = PoolClaim(i, s, sessions[s].student_id, now)
                       /\ hist' = NoteClaim(s, i)
                       /\ gs' = [gs EXCEPT ![g] = [@ EXCEPT !.inst = i, !.ip = TRUE,
                                                    !.claimed = i, !.pc = "live"]]
                  ELSE /\ gs' = [gs EXCEPT ![g].pc = "asg"]
                       /\ UNCHANGED <<pool, hist>>
    /\ UNCHANGED <<sessions, usage, usageCount, nextSid, cloud, now, cs, ds, hb, rc>>

\* enrich_session_status lines 304-337: can_use for a running, healthy group member
GsCanUse(i, s) ==
    \/ pool[i].status = "absent"
    \/ pool[i].session_id = s
    \/ pool[i].status = "available"
    \/ /\ pool[i].status \in {"starting", "assigned"}
       /\ \/ pool[i].session_id = 0
          \/ sessions[pool[i].session_id].status \in Dead \cup {"absent"}

\* enrich_session_status lines 279-302 and 368-381: walk the group; give up after 8 min
GS_Asg(g) ==
    /\ gs[g].pc = "asg"
    /\ LET s == gs[g].sid
           usable == {i \in GroupOf(get_asg_for_plan(PlanOf(sessions[s]))) :
                        ec2[i] = "running" /\ health[i] /\ GsCanUse(i, s)}
       IN  IF usable = {}
           THEN gs' = [gs EXCEPT ![g] = [@ EXCEPT !.pc = "persist",
                         !.st = IF now - sessions[s].created_at > PROVISIONING_TIMEOUT
                                THEN "error" ELSE @]]
           ELSE \E i \in usable :
                  gs' = [gs EXCEPT ![g] = [@ EXCEPT !.pc = "asg_put", !.claimed = i]]
    /\ UNCHANGED <<tables, nextSid, cloud, now, cs, ds, hb, rc, hist>>

\* enrich_session_status lines 339-364: the group member is put as assigned
GS_AsgPut(g) ==
    /\ gs[g].pc = "asg_put"
    /\ LET s == gs[g].sid
           i == gs[g].claimed
       IN  /\ pool' = PoolPut(i, "assigned", s, sessions[s].student_id, PlanOf(sessions[s]),
                           now)
           /\ gs' = [gs EXCEPT ![g] = [@ EXCEPT !.inst = i, !.ip = TRUE, !.pc = "live"]]
    /\ UNCHANGED <<sessions, usage, usageCount, nextSid, cloud, now, cs, ds, hb, rc, hist>>

\* enrich_session_status lines 423-537: status from the live instance state
LiveStatus(st, state, healthy, running_for) ==
    IF state = "none" THEN (IF st \in Dead THEN st ELSE "error")
    ELSE IF state = "running"
    THEN IF healthy \/ running_for > READY_TIMEOUT_FALLBACK
         THEN (IF st = "provisioning" THEN "ready" ELSE st)
         ELSE (IF st # "ready" THEN "provisioning" ELSE st)
    ELSE IF state = "pending" THEN "provisioning"
    ELSE IF state = "stopping" THEN "terminating"
    ELSE "terminated"

\* lines 466-471: the gateway is programmed now
NeedsGateway(loc, state, healthy, running_for) ==
    /\ state = "running"
    /\ healthy \/ running_for > READY_TIMEOUT_FALLBACK
    /\ ~loc.conn

GS_Live(g) ==
    /\ gs[g].pc = "live"
    /\ LET loc == gs[g]
           i   == loc.inst
           age == now - sessions[loc.sid].created_at
       IN  IF i = "none"
           THEN gs' = [gs EXCEPT ![g].pc = "persist"]
           ELSE \E programmed \in BOOLEAN :
                  /\ NeedsGateway(loc, ec2[i], health[i], age) \/ ~programmed
                  /\ gs' = [gs EXCEPT ![g] = [@ EXCEPT
                        !.pc = "persist",
                        !.st = LiveStatus(loc.st, ec2[i], health[i], age),
                        !.ip = IF ec2[i] = "running" THEN TRUE ELSE @,
                        !.conn = @ \/ programmed]]
    /\ UNCHANGED <<tables, nextSid, cloud, now, cs, ds, hb, rc, hist>>

\* get_session_by_id lines 124-146: the Sessions write, only when the status changed
Persisted(loc, t) ==
    [sessions EXCEPT ![loc.sid] =
        [@ EXCEPT !.status = loc.st,
                  !.updated_at = t,
                  !.instance_ip = loc.ip,
                  !.conn_id = IF loc.st = "ready" /\ loc.ip THEN loc.conn ELSE @]]

GS_Persist(g) ==
    /\ gs[g].pc = "persist"
    /\ sessions' = IF gs[g].st # gs[g].orig THEN Persisted(gs[g], now) ELSE sessions
    /\ hist' = NoteTerminated(sessions')
    /\ gs' = [gs EXCEPT ![g] = GsIdle]
    /\ UNCHANGED <<pool, usage, usageCount, nextSid, cloud, now, cs, ds, hb, rc>>

GetSession(g) ==
    \/ GS_Alloc(g)
    \/ GS_Asg(g)
    \/ GS_AsgPut(g)
    \/ GS_Live(g)
    \/ GS_Persist(g)

\* --------------------------------------------- terminate-session handler
DsIdle ==
    [pc |-> "idle", sid |-> 0, inst |-> "none", stop |-> FALSE, at |-> 0,
     fails |-> {}, guac |-> [connection_deleted |-> FALSE, user_deleted |-> FALSE],
     code |-> 0]

\* the gateway calls of the cleanup; each may fail or time out
GuacCalls == {"kill_active_sessions", "delete_connection", "delete_user"}

\* cleanup_guacamole_resources: each call is tried on its own, a failure is
\* logged and the next call is made
CleanupGuacamole(conn, fails) ==
    [connection_deleted |-> conn /\ "delete_connection" \notin fails,
     user_deleted       |-> conn /\ "delete_user" \notin fails]

\* variant: a failing gateway call ends the request
MutCleanupRaises(conn, fails) == conn /\ fails # {}

\* lines 195-210: does a failure of the cleanup leave the handler's try block?
\* cleanup_guacamole_resources catches every exception, and so does the handler
CleanupRaises(conn, fails) == FALSE

\* lines 156-172: read the session; go on unless it is already terminated or
\* terminating.  fails: the gateway calls that will fail during this request
DS_Call(s, stop, fails) ==
    /\ ds.pc = "idle"
    /\ sessions[s].status \notin {"absent", "terminated", "terminating"}
    /\ ds' = [DsIdle EXCEPT !.pc = "terminating", !.sid = s,
                            !.inst = sessions[s].instance_id, !.stop = stop, !.at = now,
                            !.fails = fails]
    /\ UNCHANGED <<tables, nextSid, cloud, now, cs, gs, hb, rc, hist>>

\* a request during which the gateway answers every call
DS_Begin(s, stop) == DS_Call(s, stop, {})

\* variant: the row is marked terminating before its existence is looked at
MutDS_NotFound(s) ==
    /\ ds.pc = "idle"
    /\ sessions[s].status = "absent"
    /\ sessions' = [sessions EXCEPT ![s].status = "terminating"]
    /\ ds' = [DsIdle EXCEPT !.code = 404]
    /\ UNCHANGED <<pool, usage, usageCount, nextSid, cloud, now, cs, gs, hb, rc, hist>>

\* lines 156-160: get_item finds no session: answer 404
DS_NotFound(s) ==
    /\ ds.pc = "idle"
    /\ sessions[s].status = "absent"
    /\ ds' = [DsIdle EXCEPT !.code = 404]
    /\ UNCHANGED <<tables, nextSid, cloud, now, cs, gs, hb, rc, hist>>

\* variant: the pool record is released first, the session is marked later
MutDS_Terminating ==
    /\ ds.pc = "terminating"
    /\ pool' = IF ds.inst # "none" THEN PoolRelease(ds.inst, "available") ELSE pool
    /\ ds' = [ds EXCEPT !.pc = "finish",
                        !.guac = CleanupGuacamole(sessions[ds.sid].conn_id, ds.fails)]
    /\ UNCHANGED <<sessions, usage, usageCount, nextSid, cloud, now, cs, gs, hb, rc, hist>>

\* lines 174-210: write status terminating, then clean up at the gateway
DS_Terminating ==
    /\ ds.pc = "terminating"
    /\ sessions' = [SetStatus(ds.sid, "terminating", ds.at)
                      EXCEPT ![ds.sid].termination_reason = "user_requested"]
    /\ LET conn == sessions[ds.sid].conn_id
       IN  IF CleanupRaises(conn, ds.fails)
           THEN ds' = DsIdle
           ELSE ds' = [ds EXCEPT !.pc = IF ds.inst # "none" THEN "release" ELSE "finish",
                                 !.guac = CleanupGuacamole(conn, ds.fails)]
    /\ UNCHANGED <<pool, usage, usageCount, nextSid, cloud, now, cs, gs, hb, rc, hist>>

\* EC2Client.stop_instance: a running or starting instance begins to stop
StopInstance(i) ==
    [ec2 EXCEPT ![i] = IF @ \in {"running", "pending"} THEN "stopping" ELSE @]

\* lines 211-238: release the pool record, optionally stop the instance
DS_Release ==
    /\ ds.pc = "release"
    /\ pool' = PoolRelease(ds.inst, IF ds.stop THEN "stopping" ELSE "available")
    /\ ec2' = IF ds.stop THEN StopInstance(ds.inst) ELSE ec2
    /\ ds' = [ds EXCEPT !.pc = "finish"]
    /\ UNCHANGED <<sessions, usage, usageCount, nextSid, health, asg, cap, now, cs, gs,
                   hb, rc, hist>>

\* the usage write of a session that ends at time t (record_usage)
UsageAfter(s, t) ==
    IF Billable(sessions[s].created_at, t)
    THEN AddUsage(sessions[s].student_id, Minutes(sessions[s].created_at, t))
    ELSE usage

CountAfter(s, t) ==
    IF Billable(sessions[s].created_at, t)
    THEN [usageCount EXCEPT ![sessions[s].student_id] = @ + 1]
    ELSE usageCount

\* lines 240-272: record usage, then mark the session terminated
DS_Finish ==
    /\ ds.pc = "finish"
    /\ usage' = UsageAfter(ds.sid, ds.at)
    /\ usageCount' = CountAfter(ds.sid, ds.at)
    /\ sessions' = SetStatus(ds.sid, "terminated", now)
    /\ hist' = NoteTerminated(sessions')
    /\ ds' = DsIdle
    /\ UNCHANGED <<pool, nextSid, cloud, now, cs, gs, hb, rc>>

DeleteSession ==
    \/ DS_Terminating
    \/ DS_Release
    \/ DS_Finish

\* --------------------------------------------------- heartbeat handler
HbIdle ==
    [pc |-> "idle", sid |-> 0, status |-> "none", last |-> 0, warned |-> FALSE,
     at |-> 0, active |-> FALSE, focus |-> FALSE, code |-> 0]

\* session.get("last_active_at", created_at)
LastActive(r) == IF r.last_active_at < 0 THEN r.created_at ELSE r.last_active_at

\* lines 161-201: read the session, reject unless ready / active / provisioning.
\* active: the tab is visible or the gateway reports the user connected;
\* focus: the body's focus_mode
HB_Read(s, active, focus) ==
    /\ hb.pc = "idle"
    /\ sessions[s].status \in {"ready", "active", "provisioning"}
    /\ hb' = [pc |-> "write", sid |-> s, status |-> sessions[s].status,
              last |-> LastActive(sessions[s]),
              warned |-> sessions[s].idle_warning_sent_at,
              at |-> now, active |-> active, focus |-> focus, code |-> 0]
    /\ UNCHANGED <<tables, nextSid, cloud, now, cs, gs, ds, rc, hist>>

\* lines 161-166: get_item finds no session: answer 404
HB_NotFound(s) ==
    /\ hb.pc = "idle"
    /\ sessions[s].status = "absent"
    /\ hb' = [HbIdle EXCEPT !.code = 404]
    /\ UNCHANGED <<tables, nextSid, cloud, now, cs, gs, ds, rc, hist>>

\* lines 203-249: idle time, warning state, one update_item
HB_Write ==
    /\ hb.pc = "write"
    /\ LET s         == hb.sid
           effective == IF hb.active THEN hb.at ELSE hb.last
           idle      == hb.at - effective
           th        == IDLE_THRESHOLDS(sessions[s].plan)
           warning   == ~hb.focus /\ idle >= th.warning /\ idle < th.termination
       IN  sessions' = [sessions EXCEPT ![s] =
              [@ EXCEPT !.last_active_at = effective,
                        !.last_heartbeat_at = hb.at,
                        !.updated_at = hb.at,
                        !.idle_warning_sent_at =
                            IF warning /\ ~hb.warned THEN TRUE
                            ELSE IF ~warning /\ hb.warned THEN FALSE ELSE @,
                        !.status = IF hb.status = "ready" /\ hb.active
                                   THEN "active" ELSE @]]
    /\ hist' = NoteFocus(hb.sid, hb.focus)
    /\ hb' = HbIdle
    /\ UNCHANGED <<pool, usage, usageCount, nextSid, cloud, now, cs, gs, ds, rc>>

Heartbeat ==
    \/ HB_Write

\* ------------------------------------------------ pool-manager (reconciler)
RcIdle == [pc |-> "idle", at |-> 0, snap |-> <<>>, todo |-> {}]

Max(a, b) == IF a >= b THEN a ELSE b

Min(a, b) == IF a <= b THEN a ELSE b

\* variant: the cycle begins with the orphan release
MutRC_Begin ==
    /\ rc.pc = "idle"
    /\ rc' = [pc |-> "orphan", at |-> now, snap |-> <<>>, todo |-> {}]
    /\ UNCHANGED <<tables, nextSid, cloud, now, cs, gs, ds, hb, hist>>

\* handler line 101 and cleanup_expired_sessions lines 168-170: the cycle's clock is
\* read once; the active sessions are queried
RC_Begin ==
    /\ rc.pc = "idle"
    /\ rc' = [pc |-> "expire", at |-> now, snap |-> sessions,
              todo |-> {s \in SessionIds : sessions[s].status \in ActiveStatuses}]
    /\ UNCHANGED <<tables, nextSid, cloud, now, cs, gs, ds, hb, hist>>

\* cleanup_expired_sessions lines 172-226, one queried session
RC_Expire(s) ==
    /\ rc.pc = "expire"
    /\ s \in rc.todo
    /\ LET r == rc.snap[s]
       IN  IF r.expires_at # 0 /\ rc.at > r.expires_at
           THEN /\ usage' = UsageAfter(s, rc.at)
                /\ usageCount' = CountAfter(s, rc.at)
                /\ sessions' = Terminate(s, "expired", rc.at)
                /\ pool' = IF r.instance_id # "none"
                           THEN PoolRelease(r.instance_id, "available") ELSE pool
           ELSE UNCHANGED tables
    /\ hist' = NoteTerminated(sessions')
    /\ rc' = [rc EXCEPT !.todo = @ \ {s}]
    /\ UNCHANGED <<nextSid, cloud, now, cs, gs, ds, hb>>

\* check_idle_sessions lines 284-290: the ready and active sessions are queried
RC_IdleQuery ==
    /\ rc.pc = "expire"
    /\ rc.todo = {}
    /\ rc' = [rc EXCEPT !.pc = "idle_pass", !.snap = sessions,
                        !.todo = {s \in SessionIds : sessions[s].status \in Running}]
    /\ UNCHANGED <<tables, nextSid, cloud, now, cs, gs, ds, hb, hist>>

\* variant: the gateway's answer is not looked at
MutIdleSeconds(r, t, connected) ==
    t - Max(LastActive(r), Max(r.last_heartbeat_at, 0))

\* check_idle_sessions lines 335-346: idle seconds of a queried session; no handler
\* stores focus_mode, so the skip at line 309 is never taken
IdleSeconds(r, t, connected) ==
    LET eff == Max(LastActive(r), Max(r.last_heartbeat_at, 0))
    IN  IF connected /\ eff < t - IDLE_HEARTBEAT_GRACE_PERIOD THEN 0 ELSE t - eff

\* check_idle_sessions lines 297-433, one queried session; connected is the
\* gateway's answer for the session's connection
RC_Idle(s, connected) ==
    /\ rc.pc = "idle_pass"
    /\ s \in rc.todo
    /\ connected => rc.snap[s].conn_id
    /\ LET r    == rc.snap[s]
           idle == IdleSeconds(r, rc.at, connected)
           th   == IDLE_THRESHOLDS(r.plan)
       IN  IF idle >= th.termination
           THEN /\ usage' = UsageAfter(s, rc.at)
                /\ usageCount' = CountAfter(s, rc.at)
                /\ sessions' = Terminate(s, "idle_timeout", rc.at)
                /\ pool' = IF r.instance_id # "none"
                           THEN PoolRelease(r.instance_id, "available") ELSE pool
           ELSE IF idle >= th.warning
           THEN /\ sessions' = IF r.idle_warning_sent_at THEN sessions
                               ELSE [sessions EXCEPT ![s].idle_warning_sent_at = TRUE,
                                                     ![s].updated_at = rc.at]
                /\ UNCHANGED <<pool, usage, usageCount>>
           ELSE /\ sessions' = IF ~r.idle_warning_sent_at THEN sessions
                               ELSE [sessions EXCEPT ![s].idle_warning_sent_at = FALSE,
                                                     ![s].last_active_at = rc.at - idle,
                                                     ![s].updated_at = rc.at]
                /\ UNCHANGED <<pool, usage, usageCount>>
    /\ hist' = NoteTerminated(sessions')
    /\ rc' = [rc EXCEPT !.todo = @ \ {s}]
    /\ UNCHANGED <<nextSid, cloud, now, cs, gs, ds, hb>>

\* handler lines 127-132: the sync pass starts, one tier after the other
RC_SyncStart ==
    /\ rc.pc = "idle_pass"
    /\ rc.todo = {}
    /\ rc' = [rc EXCEPT !.pc = "sync", !.snap = <<>>, !.todo = Plans]
    /\ UNCHANGED <<tables, nextSid, cloud, now, cs, gs, ds, hb, hist>>

\* sync_instance_pool_for_plan lines 447-455: the tier's pool records
PoolRecordsOf(p) ==
    {i \in Instances : pool[i].status \in {"available", "assigned", "starting"}
                       /\ PlanOf(pool[i]) = p}

\* sync_instance_pool_for_plan lines 457-517: the pool row of instance i afterwards
Synced(i, p) ==
    IF i \in GroupOf(p) \ PoolRecordsOf(p)
    THEN IF ec2[i] = "none" THEN pool[i]
         ELSE [NoPool EXCEPT !.status = IF ec2[i] = "pending" THEN "starting"
                                         ELSE "available",
                             !.plan = p]
    ELSE IF i \in PoolRecordsOf(p) \ GroupOf(p) THEN NoPool
    ELSE IF i \in PoolRecordsOf(p)
    THEN IF ec2[i] = "running" /\ pool[i].status = "starting"
         THEN [pool[i] EXCEPT !.status = "available"]
         ELSE IF ec2[i] = "stopped" /\ pool[i].status # "assigned"
         THEN [pool[i] EXCEPT !.status = "available"]
         ELSE pool[i]
    ELSE pool[i]

RC_Sync(p) ==
    /\ rc.pc = "sync"
    /\ p \in rc.todo
    /\ pool' = [i \in Instances |-> Synced(i, p)]
    /\ rc' = [rc EXCEPT !.todo = @ \ {p},
                        !.pc = IF rc.todo = {p} THEN "orphan" ELSE @]
    /\ UNCHANGED <<sessions, usage, usageCount, nextSid, cloud, now, cs, gs, ds, hb, hist>>

\* variant: only a record without a session id counts as orphaned
MutIsOrphaned(i, t) == pool[i].session_id = 0

\* release_orphaned_instances lines 539-557
IsOrphaned(i, t) ==
    LET sid == pool[i].session_id
    IN  \/ sid = 0
        \/ sessions[sid].status = "absent"
        \/ sessions[sid].status \in Dead
        \/ /\ pool[i].assigned_at # 0
           /\ t - pool[i].assigned_at > STALE_ASSIGNMENT
           /\ t - sessions[sid].updated_at > STALE_ASSIGNMENT

\* release_orphaned_instances lines 531-582
RC_Orphan ==
    /\ rc.pc = "orphan"
    /\ LET orphans == {i \in Instances : pool[i].status = "assigned"
                                          /\ IsOrphaned(i, rc.at)}
       IN  /\ pool' = [i \in Instances |->
                         IF i \in orphans
                         THEN [pool[i] EXCEPT !.status = "available", !.session_id = 0,
                                              !.student_id = "none"]
                         ELSE pool[i]]
           /\ hist' = NoteReleased(orphans)
    /\ rc' = [rc EXCEPT !.pc = "scale", !.todo = Plans]
    /\ UNCHANGED <<sessions, usage, usageCount, nextSid, cloud, now, cs, gs, ds, hb>>

CountSessions(p) ==
    Cardinality({s \in SessionIds : sessions[s].status \in ActiveStatuses
                                    /\ PlanOf(sessions[s]) = p})

CountPool(p, st) ==
    Cardinality({i \in Instances : pool[i].status = st /\ PlanOf(pool[i]) = p})

\* variant: the scale-up asks for the whole deficit at once
MutScaleTarget(p) ==
    LET active   == CountSessions(p)
        progress == CountPool(p, "available") + CountPool(p, "starting")
                      + CountPool(p, "assigned")
    IN  IF active > progress THEN Min(cap[p].desired + (active - progress), cap[p].max)
        ELSE cap[p].desired

\* variant: the scale-up does not look at the starting instances
MutScaleWhileStarting(p) ==
    LET active   == CountSessions(p)
        progress == CountPool(p, "available") + CountPool(p, "starting")
                      + CountPool(p, "assigned")
    IN  IF active > progress
        THEN Min(cap[p].desired + Min(active - progress, MAX_SCALE_STEP), cap[p].max)
        ELSE cap[p].desired

\* variant: the scale-down does not look at the group's minimum
MutScaleBelowMin(p) ==
    LET active   == CountSessions(p)
        avail    == CountPool(p, "available")
        starting == CountPool(p, "starting")
        progress == avail + starting + CountPool(p, "assigned")
    IN  IF active > progress /\ starting = 0
        THEN IF cap[p].desired < cap[p].max
             THEN Min(cap[p].desired + Min(active - progress, MAX_SCALE_STEP), cap[p].max)
             ELSE cap[p].desired
        ELSE IF avail > 2 /\ active = 0 /\ cap[p].desired > 0
        THEN cap[p].desired - 1
        ELSE cap[p].desired

\* manage_scaling_for_plan lines 619-650: the desired capacity it asks for
ScaleTarget(p) ==
    LET active   == CountSessions(p)
        avail    == CountPool(p, "available")
        starting == CountPool(p, "starting")
        progress == avail + starting + CountPool(p, "assigned")
    IN  IF active > progress /\ starting = 0
        THEN IF cap[p].desired < cap[p].max
             THEN Min(cap[p].desired + Min(active - progress, MAX_SCALE_STEP), cap[p].max)
             ELSE cap[p].desired
        ELSE IF avail > 2 /\ active = 0 /\ cap[p].desired > cap[p].min
        THEN Max(cap[p].desired - 1, cap[p].min)
        ELSE cap[p].desired

\* manage_scaling_for_plan, one tier; ok is set_desired_capacity's answer
RC_Scale(p, ok) ==
    /\ rc.pc = "scale"
    /\ p \in rc.todo
    /\ ok \/ ScaleTarget(p) # cap[p].desired
    /\ cap' = IF ok THEN [cap EXCEPT ![p].desired = ScaleTarget(p)] ELSE cap
    /\ rc' = IF rc.todo = {p} THEN RcIdle ELSE [rc EXCEPT !.todo = @ \ {p}]
    /\ UNCHANGED <<tables, nextSid, ec2, health, asg, now, cs, gs, ds, hb, hist>>

Reconciler ==
    \/ \E s \in SessionIds : RC_Expire(s)
    \/ RC_IdleQuery
    \/ \E s \in SessionIds, connected \in BOOLEAN : RC_Idle(s, connected)
    \/ RC_SyncStart
    \/ \E p \in Plans : RC_Sync(p)
    \/ RC_Orphan
    \/ \E p \in Plans, ok \in BOOLEAN : RC_Scale(p, ok)

\* ------------------------------------------------------- the cloud and time
\* a starting instance reaches running; its status checks have not passed yet
Boot(i) ==
    /\ ec2[i] = "pending"
    /\ ec2' = [ec2 EXCEPT ![i] = "running"]
    /\ UNCHANGED <<tables, nextSid, health, asg, cap, now, cs, gs, ds, hb, rc, hist>>

\* the status checks of a running instance pass
HealthPass(i) ==
    /\ ec2[i] = "running"
    /\ ~health[i]
    /\ health' = [health EXCEPT ![i] = TRUE]
    /\ UNCHANGED <<tables, nextSid, ec2, asg, cap, now, cs, gs, ds, hb, rc, hist>>

\* a stopping instance reaches stopped
Stopped(i) ==
    /\ ec2[i] = "stopping"
    /\ ec2' = [ec2 EXCEPT ![i] = "stopped"]
    /\ health' = [health EXCEPT ![i] = FALSE]
    /\ UNCHANGED <<tables, nextSid, asg, cap, now, cs, gs, ds, hb, rc, hist>>

\* the group launches a member while it has fewer members than desired
Launch(i, p) ==
    /\ asg[i] = "none"
    /\ ec2[i] = "none"
    /\ Cardinality(GroupOf(p)) < cap[p].desired
    /\ asg' = [asg EXCEPT ![i] = p]
    /\ ec2' = [ec2 EXCEPT ![i] = "pending"]
    /\ UNCHANGED <<tables, nextSid, health, cap, now, cs, gs, ds, hb, rc, hist>>

\* a group member is terminated (scale-in, replacement of a stopped or unhealthy
\* member, or from outside) and is gone from the group and from the cloud's listing
Depart(i) ==
    /\ asg[i] # "none"
    /\ asg' = [asg EXCEPT ![i] = "none"]
    /\ ec2' = [ec2 EXCEPT ![i] = "none"]
    /\ health' = [health EXCEPT ![i] = FALSE]
    /\ UNCHANGED <<tables, nextSid, cap, now, cs, gs, ds, hb, rc, hist>>

\* get_current_timestamp moves on by d seconds
Tick(d) ==
    /\ now + d <= MaxClock
    /\ now' = now + d
    /\ UNCHANGED <<tables, nextSid, cloud, cs, gs, ds, hb, rc, hist>>

Cloud ==
    \/ \E i \in Instances : Boot(i)
    \/ \E i \in Instances : HealthPass(i)
    \/ \E i \in Instances : Stopped(i)
    \/ \E i \in Fleet, p \in Plans : Launch(i, p)

\* ------------------------------------------------------------ initial states
\* an instance as earlier invocations left it:
\*   warm       running, healthy group member recorded available (pool-manager sync)
\*   booting    starting group member recorded starting (pool-manager sync)
\*   fresh      running, healthy group member the pool-manager has not recorded yet
\*   parked     group member stopped by terminate-session, recorded stopping
\*   unlaunched not launched yet
SeedState(k) ==
    [ec2    |-> IF k \in {"warm", "fresh"} THEN "running"
                ELSE IF k = "booting" THEN "pending"
                ELSE IF k = "parked" THEN "stopped" ELSE "none",
     health |-> k \in {"warm", "fresh"},
     asg    |-> IF k = "unlaunched" THEN "none" ELSE "pro",
     pool   |-> IF k = "warm" THEN [NoPool EXCEPT !.status = "available", !.plan = "pro"]
                ELSE IF k = "booting" THEN [NoPool EXCEPT !.status = "starting", !.plan = "pro"]
                ELSE IF k = "parked" THEN [NoPool EXCEPT !.status = "stopping", !.plan = "pro"]
                ELSE NoPool]

\* f: instance -> seed; m: the groups' MaxSize
InitCloudOn(F, f, m) ==
    LET seed(i) == SeedState(IF i \in F THEN f[i] ELSE "unlaunched")
    IN  /\ ec2 = [i \in Instances |-> seed(i).ec2]
        /\ health = [i \in Instances |-> seed(i).health]
        /\ asg = [i \in Instances |-> seed(i).asg]
        /\ pool = [i \in Instances |-> seed(i).pool]
        /\ cap = [p \in Plans |->
                    LET members == Cardinality({i \in Instances : seed(i).asg = p})
                    IN  [min |-> 0, max |-> Max(m, members), desired |-> members]]

InitCloud(f, m) == InitCloudOn(Fleet, f, m)

InitProgram ==
    /\ sessions = [s \in SessionIds |-> NoSession]
    /\ usageCount = [o \in Owners |-> 0]
    /\ nextSid = 1
    /\ now = 100
    /\ cs = [c \in Callers |-> CsIdle]
    /\ gs = [g \in Pollers |-> GsIdle]
    /\ ds = DsIdle
    /\ hb = HbIdle
    /\ rc = RcIdle
    /\ hist = [terminated |-> {}, claimed |-> {}, released |-> {}, accepted |-> {},
               focus |-> {}]

\* ----------------------------------------- concurrent claim of one instance
\* Seed: i-B is the only available instance; each caller is a distinct owner and
\* calls create_session once, concurrently with the others.
Requester == [c \in Callers |-> IF c = "c1" THEN "u1" ELSE IF c = "c2" THEN "u2" ELSE "u3"]

InitS2 ==
    /\ InitProgram
    /\ usage = [o \in Owners |-> 0]
    /\ \E k \in {"unlaunched", "parked"}, m \in 1..2 :
         InitCloud([i \in Instances |-> IF i = "iB" THEN "warm" ELSE k], m)

NextS2 ==
    \/ \E c \in Callers :
         cs[c].owner = "none" /\ CS_Start(c, Requester[c], "pro", QUOTA_UNLIMITED)
    \/ \E c \in Callers : CS_Existing(c)
    \/ \E c \in Callers : CS_Put(c)
    \/ \E c \in Callers : CS_Query(c)
    \/ \E c \in Callers, i \in Instances : CS_Claim(c, i)
    \/ \E c \in Callers : CS_Cold(c)
    \/ \E c \in Callers : CS_ColdPut(c)
    \/ \E c \in Callers : CS_Scale(c)
    \/ \E c \in Callers : CS_Commit(c)

SpecS2 == InitS2 /\ [][NextS2]_vars

Started == {c \in Callers : cs[c].owner # "none"}

Returned(c) == cs[c].owner # "none" /\ cs[c].pc = "idle"

ReadyOn(c, i) == cs[c].code = 200 /\ cs[c].rstatus = "ready" /\ cs[c].rinst = i

\* C3 -- claim atomicity: with exactly one available (running) instance i-B and
\* concurrent create_session calls, at most one conditional available-to-assigned
\* write on i-B ever succeeds, and once all the calls have returned exactly one has
\* succeeded and the pool record of i-B carries that caller's session.
C3_ClaimAtomicity ==
    LET won == {x \in hist.claimed : x[2] = "iB"}
    IN  /\ Cardinality(won) <= 1
        /\ (Started # {} /\ \A c \in Started : Returned(c))
             => \E c \in Started :
                  /\ won = {<<cs[c].rsid, "iB">>}
                  /\ pool["iB"].status = "assigned"
                  /\ pool["iB"].session_id = cs[c].rsid

\* one caller has returned ready on i-B while another, which queried i-B as
\* available before, is about to attempt its conditional write
C3_Witness ==
    \E c, d \in Callers :
        /\ c # d
        /\ Returned(c) /\ ReadyOn(c, "iB")
        /\ cs[d].pc = "claim" /\ "iB" \in cs[d].cands

InitCreate ==
    /\ InitProgram
    /\ usage = [o \in Owners |-> 0]
    /\ \E f \in [Fleet -> {"warm", "fresh", "unlaunched"}], m \in 1..2 :
         InitCloud(f, m)

NextCreate ==
    \/ \E c \in {"c1", "c2"}, o \in {"u1", "u2"} :
         CS_Start(c, o, "pro", DEFAULT_PLAN_LIMITS("pro"))
    \/ \E c \in Callers : CS_Existing(c)
    \/ \E c \in Callers : CS_ReapSession(c)
    \/ \E c \in Callers : CS_ReapPool(c)
    \/ \E c \in Callers : CS_Put(c)
    \/ \E c \in Callers : CS_Query(c)
    \/ \E c \in Callers, i \in Instances : CS_Claim(c, i)
    \/ \E c \in Callers : CS_Cold(c)
    \/ \E c \in Callers : CS_ColdPut(c)
    \/ \E c \in Callers : CS_Scale(c)
    \/ \E c \in Callers : CS_Commit(c)
    \/ (\A c \in Callers : cs[c].pc = "idle") /\ Tick(15000)

SpecCreate == InitCreate /\ [][NextCreate]_vars

\* C1 -- pool exclusivity: for each instance at most one session whose status is
\* ready or active has that instance as its instance_id.
C1_PoolExclusivity ==
    \A i \in Instances :
        Cardinality({s \in SessionIds : sessions[s].status \in Running
                                        /\ sessions[s].instance_id = i}) <= 1

\* C6 -- per owner, at most MAX_SESSIONS sessions are pending, provisioning, ready
\* or active, also when the owner's create_session requests run concurrently.
C6_SessionCap ==
    \A o \in Owners : Cardinality(ActiveSessionsOf(o)) <= MAX_SESSIONS

\* the step of caller c that declares the owner's existing session stale
DeclaresStale(c) == cs[c].pc = "existing" /\ cs'[c].pc = "reap_sess"

\* the session's last activity lies more than the grace period before t
PastGrace(r, t) == LastActive(r) + IDLE_HEARTBEAT_GRACE_PERIOD < t

\* C8 -- create_session declares an existing session stale only when the user is
\* not connected to the gateway and the session's last_active_at + GRACE < now.
C8_StaleOnlyPastGrace ==
    [][\A c \in Callers :
          DeclaresStale(c) => /\ cs'[c].probe \in {"absent", "noconn"}
                              /\ PastGrace(sessions[cs'[c].old], now)]_vars

\* the steps of a create_session that found the prior session stale
TerminatesPrior(c) ==
    cs[c].pc = "reap_sess" /\ cs'[c].pc # "reap_sess"
      => /\ sessions'[cs[c].old].status = "terminated"
         /\ sessions'[cs[c].old].termination_reason = "stale_guacamole_logout"

ReleasesPrior(c) ==
    cs[c].pc = "reap_pool" /\ cs'[c].pc # "reap_pool"
      => /\ pool'[cs[c].oldInst].status = "available"
         /\ pool'[cs[c].oldInst].session_id = 0
         /\ pool'[cs[c].oldInst].student_id = "none"

ReapsWhenStale(c) ==
    /\ cs[c].pc = "existing"
    /\ cs'[c].probe = "absent"
    /\ PastGrace(sessions[cs'[c].old], now)
    => cs'[c].pc = "reap_sess"

\* caller c returns from an invocation that reaped a session whose connection the
\* gateway did not know and whose last activity was past the grace period
ReturnsAfterReap(c) ==
    /\ cs[c].pc \notin {"idle", "existing"}
    /\ cs'[c].pc = "idle"
    /\ cs[c].old # 0
    /\ cs[c].probe = "absent"
    /\ PastGrace(sessions[cs[c].old], sessions[cs[c].old].updated_at)

NewSessionId(c) == cs'[c].code = 200 /\ cs'[c].rsid \notin {0, cs[c].old}

\* C7 (as the code has it) -- stale-session reaping: when the gateway reports no
\* active connection for the existing session's connection id and its last activity
\* is past the grace period, create_session by the same owner terminates the prior
\* session with the stale-logout reason, puts its instance back as available with
\* null session and owner, and returns a new session id, or 503 when no
\* capacity is left for the new session.
C7_StaleReapOrCapacity ==
    [][\A c \in Callers :
          /\ ReapsWhenStale(c)
          /\ TerminatesPrior(c)
          /\ ReleasesPrior(c)
          /\ ReturnsAfterReap(c) => NewSessionId(c) \/ cs'[c].code = 503]_vars

\* C7 (as stated) -- the same, the response always carrying a new session id.
C7_StaleReapNewSession ==
    [][\A c \in Callers :
          /\ ReapsWhenStale(c)
          /\ TerminatesPrior(c)
          /\ ReleasesPrior(c)
          /\ ReturnsAfterReap(c) => NewSessionId(c)]_vars

\* a create_session has returned a new session after reaping a session whose
\* connection the gateway no longer knew and whose last activity was past the grace
\* period when it was terminated
C7_Witness ==
    \E c \in Callers :
        /\ cs[c].pc = "idle" /\ cs[c].code = 200 /\ cs[c].probe = "absent"
        /\ cs[c].old # 0 /\ cs[c].rsid \notin {0, cs[c].old}
        /\ sessions[cs[c].old].status = "terminated"
        /\ sessions[cs[c].old].termination_reason = "stale_guacamole_logout"
        /\ PastGrace(sessions[cs[c].old], sessions[cs[c].old].updated_at)
        /\ sessions[cs[c].old].instance_id # "none"

\* ------------------------------------------------------ the whole system
\* Every handler, the pool-manager and the cloud, interleaved step by step.  The
\* specifications above and below are parts of it: fewer clients, fewer handlers,
\* a seed.
Quiescent ==
    /\ \A c \in Callers : cs[c].pc = "idle"
    /\ \A g \in Pollers : gs[g].pc = "idle"
    /\ ds.pc = "idle"
    /\ hb.pc = "idle"
    /\ rc.pc = "idle"

Init ==
    /\ InitProgram
    /\ usage = [o \in Owners |-> 0]
    /\ \E f \in [Fleet -> {"warm", "booting", "fresh", "parked", "unlaunched"}],
          m \in 1..2 : InitCloud(f, m)

Next ==
    \/ \E c \in Callers, o \in Owners, p \in Plans :
         CS_Start(c, o, p, DEFAULT_PLAN_LIMITS(p))
    \/ \E c \in Callers : CreateSession(c)
    \/ \E g \in Pollers, s \in SessionIds : GS_Read(g, s)
    \/ \E g \in Pollers : GetSession(g)
    \/ \E s \in SessionIds, stop \in BOOLEAN : DS_Begin(s, stop)
    \/ DeleteSession
    \/ \E s \in SessionIds, active \in BOOLEAN, focus \in BOOLEAN :
         HB_Read(s, active, focus)
    \/ Heartbeat
    \/ RC_Begin
    \/ Reconciler
    \/ Cloud
    \/ \E i \in Instances : Depart(i)
    \/ \E d \in {60, 5000} : Tick(d)

Spec == Init /\ [][Next]_vars

\* --------------------------------------------------------- usage accounting
\* One owner creates two sessions on the one warm instance and terminates them
\* (leaving the instance running) while the pool-manager cycles; the clock moves
\* between invocations.
InitUsage ==
    /\ InitProgram
    /\ usage = [o \in Owners |-> 0]
    /\ InitCloud([i \in Instances |-> IF i = "iA" THEN "warm" ELSE "unlaunched"],
                 Cardinality(Fleet))

NextUsage ==
    \/ nextSid <= 2 /\ CS_Start("c1", "u1", "pro", DEFAULT_PLAN_LIMITS("pro"))
    \/ CreateSession("c1")
    \/ \E s \in SessionIds : DS_Begin(s, FALSE)
    \/ DeleteSession
    \/ RC_Begin
    \/ Reconciler
    \/ Quiescent /\ Tick(5000)

SpecUsage == InitUsage /\ [][NextUsage]_vars

\* C10 -- usage monotonicity: for a fixed owner (and the current month) the stored
\* consumed_minutes never decreases, whatever the order and interleaving of the
\* usage writes of terminate-session and of the pool-manager's expiry and idle
\* passes.
C10_UsageMonotone ==
    [][\A o \in Owners : usage'[o] >= usage[o]]_vars

\* two usage writes for the same owner have been applied, the later one for a
\* shorter session than the sum already stored
C10_Witness ==
    \E o \in Owners, s \in SessionIds :
        /\ usageCount[o] >= 2
        /\ sessions[s].student_id = o
        /\ sessions[s].status = "terminated"
        /\ sessions[s].termination_reason \in {"expired", "idle_timeout"}
        /\ Minutes(sessions[s].created_at, sessions[s].updated_at) < usage[o]

\* ------------------------------------------------------------------ quota
\* One client calls create_session for either owner and plan, one call after the
\* other; owner u1 starts the month with some minutes already consumed.
InitQuota ==
    /\ InitProgram
    /\ \E used \in {0, 299, 300, 301} :
         usage = [o \in Owners |-> IF o = "u1" THEN used ELSE 0]
    /\ InitCloud([i \in Instances |-> IF i = "iA" THEN "warm" ELSE "fresh"],
                 Cardinality(Fleet))

NextQuota ==
    \/ \E o \in {"u1", "u2"}, p \in Plans : CS_Start("c1", o, p, DEFAULT_PLAN_LIMITS(p))
    \/ CreateSession("c1")

SpecQuota == InitQuota /\ [][NextQuota]_vars

\* a create_session request of caller c arrives
Arrives(c) == cs[c].pc = "idle" /\ cs'[c] # cs[c]

\* C9 -- quota enforcement: a request whose resolved quota_minutes is not -1 and
\* whose owner has consumed at least quota_minutes this month is answered 403 and
\* nothing is written: no session is created.
C9_QuotaEnforced ==
    [][\A c \in Callers :
          /\ Arrives(c)
          /\ cs'[c].quota # QUOTA_UNLIMITED
          /\ usage[cs'[c].owner] >= cs'[c].quota
          => /\ cs'[c].code = 403
             /\ cs'[c].pc = "idle"
             /\ UNCHANGED <<sessions, pool, usage, usageCount, nextSid>>]_vars

\* a limited-plan request of an owner at or over the quota has been answered 403,
\* and the owner has no session
C9_Witness ==
    \E c \in Callers :
        /\ cs[c].code = 403
        /\ cs[c].quota = QUOTA_FREEMIUM
        /\ usage[cs[c].owner] = cs[c].quota
        /\ \A s \in SessionIds : sessions[s].student_id # cs[c].owner

\* ------------------------------------------------- one pool-manager cycle alone
\* One owner creates and terminates sessions on the one warm instance; a
\* pool-manager cycle starts only while no request is in flight, and nothing else
\* moves until the cycle has ended.  The clock moves between invocations, by the
\* session TTL or by ten minutes more.
InitCycle ==
    /\ InitProgram
    /\ usage = [o \in Owners |-> 0]
    /\ InitCloud([i \in Instances |-> IF i = "iA" THEN "warm" ELSE "unlaunched"],
                 Cardinality(Fleet))

NoCycle == rc.pc = "idle"

NextCycle ==
    \/ NoCycle /\ nextSid <= 2
               /\ CS_Start("c1", "u1", "pro", DEFAULT_PLAN_LIMITS("pro"))
    \/ NoCycle /\ CreateSession("c1")
    \/ NoCycle /\ \E s \in SessionIds : DS_Begin(s, FALSE)
    \/ NoCycle /\ DeleteSession
    \/ Quiescent /\ RC_Begin
    \/ Reconciler
    \/ Quiescent /\ \E d \in {SESSION_TTL_HOURS * 3600, SESSION_TTL_HOURS * 3600 + 600} : Tick(d)

SpecCycle == InitCycle /\ [][NextCycle]_vars

\* the step that ends a pool-manager cycle; rc.at is the cycle's now
CycleEnds == rc.pc = "scale" /\ rc'.pc = "idle"

\* C11 -- reconciler convergence (i): when a pool-manager cycle that ran alone ends,
\* no session whose expires_at has been reached (expires_at <= the cycle's now) is
\* left pending, provisioning, ready or active (the claim asks for terminated).
C11_ExpiredAreTerminated ==
    [][CycleEnds =>
         \A s \in SessionIds :
            sessions'[s].status # "absent" /\ sessions'[s].expires_at <= rc.at
            => sessions'[s].status \notin ActiveStatuses]_vars

\* the pool row of i is assigned to no session, to a missing one or to a dead one
DeadReference(row, tbl) ==
    /\ row.status = "assigned"
    /\ \/ row.session_id = 0
       \/ tbl[row.session_id].status \in {"absent", "terminated", "error"}

\* C12 -- reconciler convergence (ii): when a pool-manager cycle that ran alone ends,
\* no pool record is assigned with a session_id that is null or refers to a missing,
\* terminated or error session; the orphan pass leaves every such record available
\* with null session and owner.
C12_NoDeadAssignment ==
    [][/\ CycleEnds => \A i \in Instances : ~DeadReference(pool'[i], sessions')
       /\ (rc.pc = "orphan" /\ rc'.pc = "scale") =>
             \A i \in Instances :
                DeadReference(pool[i], sessions)
                => /\ pool'[i].status = "available"
                   /\ pool'[i].session_id = 0
                   /\ pool'[i].student_id = "none"]_vars

\* the orphan pass has released an instance, and the cycle has ended
C12_Witness ==
    /\ rc.pc = "idle"
    /\ \E i \in hist.released :
          /\ pool[i].status = "available"
          /\ pool[i].session_id = 0
          /\ \E s \in SessionIds : sessions[s].instance_id = i
                                     /\ sessions[s].status \in Dead

\* ------------------------------------------- pool sync against the groups
\* One owner creates one session and terminates it, stopping the instance, while
\* group members are launched, boot, stop and leave; a pool-manager cycle starts
\* only while no request is in flight, and nothing else moves until it has ended.
\* The clock stands still.
InitSync ==
    /\ InitProgram
    /\ usage = [o \in Owners |-> 0]
    /\ InitCloud([i \in Instances |-> IF i = "iA" THEN "warm" ELSE "unlaunched"],
                 Cardinality(Fleet))

NextSync ==
    \/ NoCycle /\ nextSid <= 1
               /\ CS_Start("c1", "u1", "pro", DEFAULT_PLAN_LIMITS("pro"))
    \/ NoCycle /\ CS_Existing("c1")
    \/ NoCycle /\ CS_Put("c1")
    \/ NoCycle /\ CS_Query("c1")
    \/ NoCycle /\ \E i \in Instances : CS_Claim("c1", i)
    \/ NoCycle /\ CS_Cold("c1")
    \/ NoCycle /\ CS_ColdPut("c1")
    \/ NoCycle /\ CS_Scale("c1")
    \/ NoCycle /\ CS_Commit("c1")
    \/ NoCycle /\ \E s \in SessionIds : DS_Begin(s, TRUE)
    \/ NoCycle /\ DeleteSession
    \/ NoCycle /\ Cloud
    \/ NoCycle /\ \E i \in Instances : Depart(i)
    \/ Quiescent /\ RC_Begin
    \/ Reconciler

SpecSync == InitSync /\ [][NextSync]_vars

\* the instances that have a pool record of tier p
PoolMembers(p) ==
    {i \in Instances : pool[i].status # "absent" /\ PlanOf(pool[i]) = p}

\* C13 -- reconciler convergence (iii): when a pool-manager cycle that ran alone
\* ends, for each tier the instances that have a pool record of the tier are exactly
\* the members of the tier's group.
C13_PoolEqualsGroup ==
    [][CycleEnds => \A p \in Plans : PoolMembers(p)' = GroupOf(p)']_vars


\* ----------------------------------------------- authenticated create_session
\* Seed: i-A is warm.  Every container is deployed with the same environment
\* (REQUIRE_MOODLE_AUTH, MOODLE_WEBHOOK_SECRET), any of the four.  Requests come one
\* after the other (no stopped group member: nothing to start cold) and carry
\* no token or a token of u1 signed with the deployment's key k1 or with another
\* key, with or without a nonce, and a body with or without a student_id.
Secrets == {"", "k1"}

Tokens ==
    {[key |-> k, user |-> "u1", plan |-> "pro", expires |-> TokenExpires, nonce |-> n] :
        k \in {"k1", "k2"}, n \in {0, 7}}

InitAuth ==
    /\ sessions = [s \in SessionIds |-> NoSession]
    /\ usage = [o \in Owners |-> 0]
    /\ usageCount = [o \in Owners |-> 0]
    /\ nextSid = 1
    /\ now = 100
    /\ \E r \in BOOLEAN, k \in Secrets :
          cs = [c \in Callers |-> [CsIdle EXCEPT !.env = [require |-> r, secret |-> k]]]
    /\ gs = [g \in Pollers |-> GsIdle]
    /\ ds = DsIdle
    /\ hb = HbIdle
    /\ rc = RcIdle
    /\ hist = [terminated |-> {}, claimed |-> {}, released |-> {}, accepted |-> {},
               focus |-> {}]
    /\ InitCloud([i \in Instances |-> IF i = "iA" THEN "warm" ELSE "unlaunched"],
                 Cardinality(Fleet))

NextAuth ==
    \/ \E tok \in Tokens \cup {NoToken}, body \in {"none", "u2"} : CS_Auth("c1", tok, body)
    \/ CS_Existing("c1")
    \/ CS_ReapSession("c1")
    \/ CS_ReapPool("c1")
    \/ CS_Put("c1")
    \/ CS_Query("c1")
    \/ \E i \in Instances : CS_Claim("c1", i)
    \/ CS_Cold("c1")
    \/ CS_Scale("c1")
    \/ CS_Commit("c1")
    \/ \E d \in {200} : now + d <= MaxAuthClock /\ Tick(d)

SpecAuth == InitAuth /\ [][NextAuth]_vars

\* the request's token is absent or fails verification against the secret
Unverifiable(tok, secret, t) ==
    tok = NoToken \/ secret = "" \/ tok.key # secret \/ t > tok.expires

\* C14 -- with REQUIRE_MOODLE_AUTH true, a create_session request whose token is
\* absent or fails verification returns 401 and goes no further, whatever the
\* shared secret is set to; and a request that goes on takes its identity from the
\* token, never from the body.
C14_UnauthenticatedRejected ==
    [][\A c \in Callers :
          Arrives(c) /\ cs'[c].env.require =>
             /\ Unverifiable(cs'[c].token, cs'[c].env.secret, now)
                   => cs'[c].code = 401 /\ cs'[c].pc = "idle"
             /\ cs'[c].owner # "none" => cs'[c].owner = cs'[c].token.user]_vars

\* the token presented carries a nonce that was accepted within the window before
Replayed(tok, t) ==
    tok.nonce # 0 /\ \E a \in hist.accepted : a[1] = tok.nonce /\ t - a[2] <= max_nonce_age

\* C15 -- once a token with nonce n has been accepted, a request presenting the
\* same nonce within the replay window is rejected by token verification.
C15_ReplayRejected ==
    [][\A c \in Callers :
          Arrives(c) /\ Replayed(cs'[c].token, now) => ~cs'[c].verified]_vars


\* ------------------------------------------ termination with a failing gateway
\* Seed: i-A and i-B are warm.  u1 creates sessions and delete_session is
\* called on them, with any subset of the gateway calls failing (an instance is
\* always there to claim: no cold start); a request that
\* has started runs on (weak fairness of the handler's steps).
InitTerm ==
    /\ InitProgram
    /\ usage = [o \in Owners |-> 0]
    /\ InitCloud([i \in Instances |-> "warm"], Cardinality(Fleet))

NextTerm ==
    \/ nextSid <= 2 /\ CS_Start("c1", "u1", "pro", DEFAULT_PLAN_LIMITS("pro"))
    \/ CS_Existing("c1")
    \/ CS_ReapSession("c1")
    \/ CS_ReapPool("c1")
    \/ CS_Put("c1")
    \/ CS_Query("c1")
    \/ \E i \in Instances : CS_Claim("c1", i)
    \/ CS_Commit("c1")
    \/ \E s \in SessionIds, stop \in BOOLEAN, fails \in SUBSET GuacCalls :
          DS_Call(s, stop, fails)
    \/ DeleteSession
    \/ \E d \in {60} : now = 100 /\ Tick(d)

SpecTerm == InitTerm /\ [][NextTerm]_vars /\ WF_vars(DeleteSession)

\* the delete_session request in flight returns
DeleteEnds == ds.pc # "idle" /\ ds'.pc = "idle"

\* C16 -- a delete_session request on an existing session that is neither
\* terminated nor terminating ends, and when it ends the stored status of the
\* session is terminated, whichever gateway cleanup calls failed or timed out.
C16_TerminatesDespiteGateway ==
    /\ [][DeleteEnds => sessions'[ds.sid].status = "terminated"]_vars
    /\ [](ds.pc # "idle" => <>(ds.pc = "idle"))

\* a request whose gateway calls all fail, on a session that has a connection, has
\* reached its last step
C16_Witness ==
    /\ ds.pc = "finish"
    /\ ds.fails = GuacCalls
    /\ sessions[ds.sid].conn_id
    /\ ~ds.guac.connection_deleted


\* ------------------------------------------------------------ tier isolation
\* Seed: i-A is the warm member of the freemium group, i-B of the pro group; the
\* starter tier has no group configured; the pro group is at its maximum, the
\* freemium group one below.  u1 and u2 create sessions of any plan,
\* poll them and delete them, one request at a time; group membership does not
\* change.
SessionPlans == {"freemium", "starter", "pro"}

TierSeed ==
    [i \in Instances |-> IF i = "iA" THEN "freemium" ELSE IF i = "iB" THEN "pro" ELSE "none"]

InitTier ==
    /\ InitProgram
    /\ usage = [o \in Owners |-> 0]
    /\ ec2 = [i \in Instances |-> IF i \in Fleet THEN "running" ELSE "none"]
    /\ health = [i \in Instances |-> i \in Fleet]
    /\ asg = TierSeed
    /\ pool = [i \in Instances |->
                 IF i \in Fleet
                 THEN [NoPool EXCEPT !.status = "available", !.plan = TierSeed[i]]
                 ELSE NoPool]
    /\ cap = [p \in Plans |-> [min |-> 0, max |-> IF p = "pro" THEN 1 ELSE 2, desired |-> 1]]

NextTier ==
    \/ \E c \in {"c1", "c2"}, p \in SessionPlans :
          Quiescent /\ nextSid <= 2 /\ CS_Start(c, Requester[c], p, DEFAULT_PLAN_LIMITS(p))
    \/ \E c \in {"c1", "c2"} : CreateSession(c)
    \/ \E g \in Pollers, s \in SessionIds : Quiescent /\ GS_Read(g, s)
    \/ \E g \in Pollers : GetSession(g)
    \/ \E s \in SessionIds : Quiescent /\ DS_Begin(s, FALSE)
    \/ DeleteSession

SpecTier == InitTier /\ [][NextTier]_vars

\* the pool row of instance i comes to name a session it did not name before
Binds(i) == pool'[i].session_id # 0 /\ pool'[i].session_id # pool[i].session_id

\* C17 -- a session of plan p is bound only to an instance of tier p (a pool record
\* without a plan counts as pro), and no operation changes the plan a pool record
\* carries.
C17_TierIsolation ==
    [][\A i \in Instances :
          /\ Binds(i) => PlanOf(sessions'[pool'[i].session_id]) = asg[i]
          /\ pool[i].status # "absent" /\ pool'[i].status # "absent"
                => PlanOf(pool'[i]) = PlanOf(pool[i])]_vars


\* create_session is at its scaling step: nothing was claimed, nothing can be started
Exhausted(c) == cs[c].pc = "scale" /\ cs'[c] # cs[c]

\* C18 -- when no instance can be claimed, none can be started and the desired
\* capacity of the tier's group equals its maximum, create_session writes the
\* session with status error and returns 503; the session is not left
\* provisioning or ready.
C18_CapacityExhausted ==
    [][\A c \in Callers :
          LET k == cap[get_asg_for_plan(cs[c].plan)]
          IN  Exhausted(c) /\ k.desired = k.max =>
                 /\ sessions'[cs[c].sid].status = "error"
                 /\ cs'[c].pc = "idle"
                 /\ cs'[c].code = 503]_vars

\* a request has returned 503 with its group at the maximum
C18_Witness ==
    \E c \in Callers, s \in SessionIds :
        /\ cs[c].pc = "idle" /\ cs[c].code = 503
        /\ sessions[s].student_id = cs[c].owner /\ sessions[s].status = "error"
        /\ cap[get_asg_for_plan(cs[c].plan)].desired = cap[get_asg_for_plan(cs[c].plan)].max


\* ------------------------------------------------------------ scaling decisions
\* Seed: the pro group is empty (desired 0) with room for MaxGroup members.  u1,
\* u2 and u3 create sessions one request at a time, the group launches what is
\* desired between the requests, and pool-manager cycles run between them too.
MaxGroup == 6

InitScale ==
    /\ InitProgram
    /\ usage = [o \in Owners |-> 0]
    /\ InitCloud([i \in Instances |-> "unlaunched"], MaxGroup)

NextScale ==
    \/ \E c \in Callers :
          Quiescent /\ CS_Start(c, Requester[c], "pro", DEFAULT_PLAN_LIMITS("pro"))
    \/ \E c \in Callers : CreateSession(c)
    \/ Quiescent /\ RC_Begin
    \/ Reconciler
    \/ \E i \in Fleet : Quiescent /\ Launch(i, "pro")
    \/ \E i \in Instances : Quiescent /\ Boot(i)
    \/ \E i \in Instances : Quiescent /\ HealthPass(i)

SpecScale == InitScale /\ [][NextScale]_vars

\* C19 -- no scaling decision, by a pool-manager cycle for a tier or by a
\* create_session cold start, sets a group's desired capacity more than
\* MAX_SCALE_STEP above the desired capacity it read, or above the group's maximum.
C19_ScaleStepBounded ==
    [][\A p \in Plans :
          cap'[p].desired # cap[p].desired =>
             /\ cap'[p].desired <= cap[p].desired + MAX_SCALE_STEP
             /\ cap'[p].desired <= cap[p].max]_vars

\* three sessions wait for an instance and a cycle has raised desired by the full step
C19_Witness ==
    /\ rc.pc = "idle"
    /\ CountSessions("pro") = 3
    /\ CountPool("pro", "available") + CountPool("pro", "starting")
          + CountPool("pro", "assigned") = 0
    /\ cap["pro"].desired = MAX_SCALE_STEP

\* ------------------------------------------------ polling while provisioning
\* One owner creates one session while no instance can be handed out (i-A is still
\* booting, i-B is not launched), then polls it with get_session while the group
\* launches and boots its members and the pool-manager records them.
InitPoll ==
    /\ InitProgram
    /\ usage = [o \in Owners |-> 0]
    /\ InitCloud([i \in Instances |-> IF i = "iA" THEN "booting" ELSE "unlaunched"],
                 Cardinality(Fleet))

NextPoll ==
    \/ nextSid <= 1 /\ CS_Start("c1", "u1", "pro", DEFAULT_PLAN_LIMITS("pro"))
    \/ CS_Existing("c1")
    \/ CS_Put("c1")
    \/ CS_Query("c1")
    \/ \E i \in Instances : CS_Claim("c1", i)
    \/ CS_Cold("c1")
    \/ CS_ColdPut("c1")
    \/ CS_Scale("c1")
    \/ CS_Commit("c1")
    \/ \E g \in Pollers, s \in SessionIds : GS_Read(g, s)
    \/ \E g \in Pollers : GetSession(g)
    \/ RC_Begin
    \/ Reconciler
    \/ \E i \in Instances : Boot(i)
    \/ \E i \in Instances : HealthPass(i)
    \/ \E i \in Fleet, p \in Plans : Launch(i, p)
    \/ Quiescent /\ Tick(5000)

SpecPoll == InitPoll /\ [][NextPoll]_vars

HeldBy(s) ==
    {i \in Instances : pool[i].status \in {"assigned", "starting"}
                        /\ pool[i].session_id = s}

\* C2 -- a session holds at most one instance: for every session S at most one
\* InstancePool record with status assigned or starting has session_id = S, after
\* create_session and any number of get_session polls of S while it is provisioning.
C2_SessionHoldsOne ==
    \A s \in SessionIds : Cardinality(HeldBy(s)) <= 1

\* -------------------------------------------------- the life of a session
\* One owner creates two sessions; they are polled, kept alive and terminated while
\* the cloud runs.  At most MaxInFlight invocations are in flight at once, every
\* termination stops the instance (the request's default), and the clock stands
\* still.
InitLife ==
    /\ InitProgram
    /\ usage = [o \in Owners |-> 0]
    /\ InitCloud([i \in Instances |-> IF i = "iA" THEN "warm" ELSE "unlaunched"],
                 Cardinality(Fleet))

InFlight ==
    Cardinality({c \in Callers : cs[c].pc # "idle"})
    + Cardinality({g \in Pollers : gs[g].pc # "idle"})
    + (IF ds.pc # "idle" THEN 1 ELSE 0)
    + (IF hb.pc # "idle" THEN 1 ELSE 0)
    + (IF rc.pc # "idle" THEN 1 ELSE 0)

Free == InFlight < MaxInFlight

NextLife ==
    \/ Free /\ nextSid <= 2 /\ CS_Start("c1", "u1", "pro", DEFAULT_PLAN_LIMITS("pro"))
    \/ CreateSession("c1")
    \/ Free /\ \E g \in Pollers, s \in SessionIds : GS_Read(g, s)
    \/ \E g \in Pollers : GetSession(g)
    \/ Free /\ \E s \in SessionIds : DS_Begin(s, TRUE)
    \/ DeleteSession
    \/ Free /\ \E s \in SessionIds, active \in BOOLEAN : HB_Read(s, active, FALSE)
    \/ Heartbeat
    \/ Cloud

SpecLife == InitLife /\ [][NextLife]_vars

\* C5 -- termination monotonicity: once the stored status of a session has been
\* terminated, no later read of that session shows ready or active.
C5_TerminatedStays ==
    \A s \in hist.terminated : sessions[s].status \notin Running


\* a write releases the pool record of i from the session it names
Released(i) == pool[i].session_id # 0 /\ pool'[i].session_id = 0

\* the sessions for which a request in flight is about to release the record of i:
\* the session delete_session is terminating, the stale session create_session reaps
ReleasedFor(i) ==
    (IF ds.pc = "release" /\ ds.inst = i THEN {ds.sid} ELSE {})
    \cup {cs[c].old : c \in {k \in Callers : cs[k].pc = "reap_pool" /\ cs[k].oldInst = i}}

\* C20 -- every write that changes a pool record's status or owner is conditional:
\* a release (on terminate, on stale reap) takes effect only if the record still
\* names the session it is released for, and never overwrites what another writer
\* has put there since.
C20_PoolWritesConditional ==
    [][\A i \in Instances : Released(i) => pool[i].session_id \in ReleasedFor(i)]_vars


\* ------------------------------------------------------------- idle detection
\* Seed: i-A is warm.  u1 creates one pro session; heartbeats (tab visible or not,
\* focus mode or not) and pool-manager cycles run, also at the same time, while the
\* clock moves on between them.
InitIdle ==
    /\ InitProgram
    /\ usage = [o \in Owners |-> 0]
    /\ InitCloud([i \in Instances |-> IF i = "iA" THEN "warm" ELSE "unlaunched"],
                 Cardinality(Fleet))

NextIdle ==
    \/ nextSid <= 1 /\ CS_Start("c1", "u1", "pro", DEFAULT_PLAN_LIMITS("pro"))
    \/ CS_Existing("c1")
    \/ CS_Put("c1")
    \/ CS_Query("c1")
    \/ \E i \in Instances : CS_Claim("c1", i)
    \/ CS_Commit("c1")
    \/ \E s \in SessionIds, active \in BOOLEAN, focus \in BOOLEAN : HB_Read(s, active, focus)
    \/ Heartbeat
    \/ RC_Begin
    \/ Reconciler
    \/ Quiescent /\ now + IdleStep <= MaxIdleClock /\ Tick(IdleStep)

SpecIdle == InitIdle /\ [][NextIdle]_vars

\* the idle sweep writes a warning to session s in this step
SweepWarns(s) ==
    /\ rc.pc = "idle_pass" /\ s \in rc.todo /\ s \notin rc'.todo
    /\ sessions'[s] # sessions[s]
    /\ sessions'[s].status = sessions[s].status
    /\ sessions'[s].idle_warning_sent_at

\* the heartbeat writes a warning to session s in this step
HeartbeatWarns(s) ==
    /\ hb.pc = "write" /\ hb.sid = s /\ hb'.pc = "idle"
    /\ ~hb.warned /\ ~hb.focus /\ ~hb.active
    /\ hb.at - hb.last >= IDLE_THRESHOLDS(sessions[s].plan).warning
    /\ hb.at - hb.last < IDLE_THRESHOLDS(sessions[s].plan).termination

\* C21 -- idle-warning hysteresis: a warning is written to a session only when no
\* warning is recorded for it; it is never set twice without a clear in between.
C21_WarningOnce ==
    [][\A s \in SessionIds :
          SweepWarns(s) \/ HeartbeatWarns(s) => ~sessions[s].idle_warning_sent_at]_vars

\* ------------------------------------------------------------ rejected requests
\* One client calls create_session with or without a token, delete_session and
\* heartbeat for any session id, one request after the other; owner u2 starts the
\* month with the freemium quota either untouched or used up.
InitReject ==
    /\ sessions = [s \in SessionIds |-> NoSession]
    /\ \E used \in {0, QUOTA_FREEMIUM} :
         usage = [o \in Owners |-> IF o = "u2" THEN used ELSE 0]
    /\ usageCount = [o \in Owners |-> 0]
    /\ nextSid = 1
    /\ now = 100
    /\ \E r \in BOOLEAN :
          cs = [c \in Callers |-> [CsIdle EXCEPT !.env = [require |-> r, secret |-> "k1"]]]
    /\ gs = [g \in Pollers |-> GsIdle]
    /\ ds = DsIdle
    /\ hb = HbIdle
    /\ rc = RcIdle
    /\ hist = [terminated |-> {}, claimed |-> {}, released |-> {}, accepted |-> {},
               focus |-> {}]
    /\ InitCloud([i \in Instances |-> IF i = "iA" THEN "warm" ELSE "unlaunched"],
                 Cardinality(Fleet))

NextReject ==
    \/ \E tok \in {k \in Tokens : k.nonce = 0} \cup {NoToken}, body \in {"none", "u2"} :
         Quiescent /\ CS_Auth("c1", tok, body)
    \/ CS_Existing("c1")
    \/ CS_ReapSession("c1")
    \/ CS_ReapPool("c1")
    \/ CS_Put("c1")
    \/ CS_Query("c1")
    \/ \E i \in Instances : CS_Claim("c1", i)
    \/ CS_Cold("c1")
    \/ CS_Scale("c1")
    \/ CS_Commit("c1")
    \/ \E s \in SessionIds : Quiescent /\ DS_NotFound(s)
    \/ \E s \in SessionIds, stop \in BOOLEAN : Quiescent /\ DS_Begin(s, stop)
    \/ DeleteSession
    \/ \E s \in SessionIds : Quiescent /\ HB_NotFound(s)
    \/ \E s \in SessionIds, active \in BOOLEAN : Quiescent /\ HB_Read(s, active, FALSE)
    \/ Heartbeat

SpecReject == InitReject /\ [][NextReject]_vars

\* C22 -- a create_session request answered 400, 401 or 403, and a delete_session
\* or heartbeat request answered 404, is answered by its first step, and that
\* step creates or modifies no Sessions, InstancePool or Usage record.
C22_RejectedWritesNothing ==
    [][/\ \A c \in Callers :
            cs'[c] # cs[c] /\ cs'[c].code \in {400, 401, 403}
            => cs[c].pc = "idle" /\ UNCHANGED tables
       /\ ds' # ds /\ ds'.code = 404 => ds.pc = "idle" /\ UNCHANGED tables
       /\ hb' # hb /\ hb'.code = 404 => hb.pc = "idle" /\ UNCHANGED tables]_vars

\* create_session was answered 403 for an owner over the quota, delete_session
\* and heartbeat were answered 404, and the tables hold what they held before
C22_Witness ==
    /\ cs["c1"].code = 403
    /\ ds.code = 404
    /\ hb.code = 404
    /\ sessions = [s \in SessionIds |-> NoSession]
    /\ usage["u2"] = QUOTA_FREEMIUM

\* the Sessions write of this step turns the stored status of s into ready
BecomesReady(s) == sessions[s].status # "ready" /\ sessions'[s].status = "ready"

\* C23 -- readiness implies reachability: the stored status of a session becomes
\* ready only when its instance is running and healthy and the gateway has been
\* programmed for it (the record carries a gateway connection id), in the commit
\* of create_session as in the provisioning -> ready step of the status endpoint.
C23_ReadyIsReachable ==
    [][\A s \in SessionIds :
          BecomesReady(s)
          => /\ sessions'[s].conn_id
             /\ sessions'[s].instance_id \in Instances
             /\ ec2[sessions'[s].instance_id] = "running"
             /\ health[sessions'[s].instance_id]]_vars

\* the passes of one cycle, each with the pass that follows it
PassOrder ==
    {<<"idle", "expire">>, <<"expire", "idle_pass">>, <<"idle_pass", "sync">>,
     <<"sync", "orphan">>, <<"orphan", "scale">>, <<"scale", "idle">>}

ScalesTier(p) == rc.pc = "scale" /\ p \in rc.todo /\ p \notin rc'.todo

\* A - P: the active sessions of tier p beyond its available, starting and
\* assigned pool records
Deficit(p) ==
    CountSessions(p) - (CountPool(p, "available") + CountPool(p, "starting")
                          + CountPool(p, "assigned"))

ScaleUpDue(p) == Deficit(p) > 0 /\ CountPool(p, "starting") = 0

RaisedTo(p) == Min(cap[p].desired + Min(Deficit(p), MAX_SCALE_STEP), cap[p].max)

\* C25 as stated -- in the scaling pass the desired capacity of a tier is raised
\* if and only if A > P and no instance of the tier is starting, and it is then
\* set to min(D + min(A - P, 2), max).
C25_RaisedIffDue ==
    [][\A p \in Plans :
          ScalesTier(p) =>
             /\ cap'[p].desired > cap[p].desired <=> ScaleUpDue(p)
             /\ ScaleUpDue(p) => cap'[p].desired = RaisedTo(p)]_vars

\* C25 -- in the scaling pass the desired capacity of a tier is raised only if
\* A > P, no instance of the tier is starting and D < max, and then to
\* min(D + min(A - P, 2), max); when A > P and none is starting it ends at that
\* value or stays at D (D = max, or the call failed); it is never raised while an
\* instance of the tier is starting.
C25_RaisedOnlyWhenDue ==
    [][\A p \in Plans :
          ScalesTier(p) =>
             /\ cap'[p].desired > cap[p].desired
                => /\ ScaleUpDue(p)
                   /\ cap[p].desired < cap[p].max
                   /\ cap'[p].desired = RaisedTo(p)
             /\ ScaleUpDue(p) => cap'[p].desired \in {cap[p].desired, RaisedTo(p)}
             /\ CountPool(p, "starting") > 0 => cap'[p].desired <= cap[p].desired]_vars

\* the pass has handled the pro tier with three sessions on two pool records,
\* none starting, and desired stands above what the three requests asked for
C25_Witness ==
    /\ rc.pc = "scale"
    /\ "pro" \notin rc.todo
    /\ CountSessions("pro") = 3
    /\ Deficit("pro") = 1
    /\ CountPool("pro", "starting") = 0
    /\ cap["pro"].desired = 4

\* ------------------------------------------------------- scaling down and up
\* Seed: i-A, i-B and i-C are the warm members of the pro group, which has
\* MinSize 1 and stands at its MaxSize 3.  u1 and u2 create sessions and delete them,
\* one request at a time; pool-manager cycles run between the requests; the group
\* terminates a member while it has more than desired.
InitDown ==
    /\ InitProgram
    /\ usage = [o \in Owners |-> 0]
    /\ ec2 = [i \in Instances |-> "running"]
    /\ health = [i \in Instances |-> TRUE]
    /\ asg = [i \in Instances |-> "pro"]
    /\ pool = [i \in Instances |-> [NoPool EXCEPT !.status = "available", !.plan = "pro"]]
    /\ cap = [p \in Plans |-> IF p = "pro" THEN [min |-> 1, max |-> 3, desired |-> 3]
                                ELSE [min |-> 0, max |-> 1, desired |-> 0]]

NextDown ==
    \/ \E o \in {"u1", "u2"} :
          /\ Quiescent /\ nextSid <= 2
          /\ CS_Start("c1", o, "pro", DEFAULT_PLAN_LIMITS("pro"))
    \/ CS_Existing("c1")
    \/ CS_Put("c1")
    \/ CS_Query("c1")
    \/ \E i \in Instances : CS_Claim("c1", i)
    \/ CS_Cold("c1")
    \/ CS_Scale("c1")
    \/ CS_Commit("c1")
    \/ \E s \in SessionIds : Quiescent /\ DS_Begin(s, FALSE)
    \/ DeleteSession
    \/ Quiescent /\ RC_Begin
    \/ Reconciler
    \/ \E i \in Instances :
          Quiescent /\ Cardinality(GroupOf("pro")) > cap["pro"].desired /\ Depart(i)

SpecDown == InitDown /\ [][NextDown]_vars

\* C26 -- every change of a group's desired capacity, by create_session or by the
\* pool-manager, ends between the group's MinSize and MaxSize; desired is lowered
\* only by the scaling pass, only with more than two available instances of the
\* tier, no active session of the tier and desired above MinSize.
C26_DesiredWithinBounds ==
    [][\A p \in Plans :
          cap'[p].desired # cap[p].desired =>
             /\ cap[p].min <= cap'[p].desired
             /\ cap'[p].desired <= cap[p].max
             /\ cap'[p].desired < cap[p].desired
                => /\ ScalesTier(p)
                   /\ CountPool(p, "available") > 2
                   /\ CountSessions(p) = 0
                   /\ cap[p].desired > cap[p].min]_vars

\* the pro group has been scaled down to its MinSize while its three instances
\* are still available and no session is active
C26_Witness ==
    /\ cap["pro"].desired = cap["pro"].min
    /\ CountPool("pro", "available") = 3
    /\ CountSessions("pro") = 0
    /\ rc.pc = "idle"

\* the positions of a delete_session request, each with the one that follows it
DeleteOrder ==
    {<<"idle", "terminating">>, <<"terminating", "release">>, <<"terminating", "finish">>,
     <<"release", "finish">>, <<"finish", "idle">>}

SweepHandles(s) == rc.pc = "idle_pass" /\ s \in rc.todo /\ s \notin rc'.todo

StoredIdle(s) ==
    rc.at - Max(LastActive(rc.snap[s]), Max(rc.snap[s].last_heartbeat_at, 0))

\* C29 -- a ready or active session for which the gateway reports an active
\* connection in the cycle is treated as active by the idle sweep: the sweep does
\* not terminate it and writes no new idle warning for it, whatever its
\* last_active_at and last_heartbeat_at are.
C29_ConnectedIsActive ==
    [][\A s \in SessionIds :
          RC_Idle(s, TRUE)
          => /\ sessions'[s].status = sessions[s].status
             /\ sessions'[s].idle_warning_sent_at => sessions[s].idle_warning_sent_at
             /\ UNCHANGED <<pool, usage, usageCount>>]_vars

\* the sweep has just handled a session with a gateway connection whose timestamps
\* alone put it past the termination threshold, and the session is still running
\* without a warning
C29_Witness ==
    \E s \in SessionIds :
        /\ rc.pc = "idle_pass"
        /\ s \notin rc.todo
        /\ rc.snap[s].status \in Running
        /\ rc.snap[s].conn_id
        /\ StoredIdle(s) >= IDLE_THRESHOLDS(rc.snap[s].plan).termination
        /\ sessions[s].status \in Running
        /\ ~sessions[s].idle_warning_sent_at
        /\ sessions[s].updated_at = rc.snap[s].updated_at

\* ------------------------------------------------- claims that hit an I/O error
\* Seed: i-A and i-B are warm.  u1, u2 and u3 call create_session concurrently,
\* once each; any conditional update may end in an I/O error instead of an answer.
InitClaimIO ==
    /\ InitProgram
    /\ usage = [o \in Owners |-> 0]
    /\ InitCloud([i \in Instances |-> "warm"], Cardinality(Fleet))

NextClaimIO ==
    \/ \E c \in Callers :
          /\ \A s \in SessionIds : sessions[s].student_id # Requester[c]
          /\ CS_Start(c, Requester[c], "pro", DEFAULT_PLAN_LIMITS("pro"))
    \/ \E c \in Callers :
          \/ CS_Existing(c)
          \/ CS_Put(c)
          \/ CS_Query(c)
          \/ \E i \in Instances : CS_Claim(c, i)
          \/ \E i \in Instances : CS_ClaimIO(c, i)
          \/ CS_Cold(c)
          \/ CS_ColdPut(c)
          \/ CS_Scale(c)
          \/ CS_Commit(c)

SpecClaimIO == InitClaimIO /\ [][NextClaimIO]_vars

\* C30 -- the conditional update returns different results for "condition not
\* met" and for an I/O error, and the claim loop reacts differently: after an I/O
\* error on a candidate the caller is not where a lost race on that candidate
\* would have put it (it retries instead of moving on).
C30_ErrorsDistinguished ==
    [][\A c \in Callers, i \in Instances :
          CS_ClaimIO(c, i)
          => /\ conditional_update(ConditionHolds(i), TRUE) # conditional_update(FALSE, FALSE)
             /\ cs'[c] # AfterFailedClaim(c, i)]_vars

\* ------------------------------------------------- Sessions writes that fail
\* DynamoDBClient.put_item / update_item: the return value; io: the call ends in
\* a ClientError, and nothing is written
put_item(io) == ~io

update_item(io) == ~io

\* lines 561-562: the pending put fails and the request ends with 500
CS_PutIO(c) ==
    /\ cs[c].pc = "put"
    /\ ~put_item(TRUE)
    /\ cs' = Return(c, 500, "none", 0, "none", FALSE)
    /\ UNCHANGED <<tables, nextSid, cloud, now, gs, ds, hb, rc, hist>>

\* lines 786-860: the final Sessions write fails; its return value is not looked
\* at, and the response is the one of a successful write
CS_CommitIO(c) ==
    /\ cs[c].pc = "commit"
    /\ ~update_item(TRUE)
    /\ cs' = Return(c, 200, IF cs[c].ip THEN "ready" ELSE "provisioning",
                    cs[c].sid, cs[c].inst, FALSE)
    /\ UNCHANGED <<tables, nextSid, cloud, now, gs, ds, hb, rc, hist>>

\* Seed: i-A is warm, i-B is warm, parked or not launched.  u1, u2 and u3 call
\* create_session concurrently, once each; the pending put and the final update
\* may fail.
InitWriteIO ==
    /\ InitProgram
    /\ usage = [o \in Owners |-> 0]
    /\ \E k \in {"warm", "parked", "unlaunched"} :
         InitCloud([i \in Instances |-> IF i = "iA" THEN "warm" ELSE k],
                   Cardinality(Fleet))

NextWriteIO ==
    \/ \E c \in Callers :
          /\ cs[c].owner = "none"
          /\ CS_Start(c, Requester[c], "pro", DEFAULT_PLAN_LIMITS("pro"))
    \/ \E c \in Callers :
          \/ CS_Existing(c)
          \/ CS_Put(c)
          \/ CS_PutIO(c)
          \/ CS_Query(c)
          \/ \E i \in Instances : CS_Claim(c, i)
          \/ CS_Cold(c)
          \/ CS_ColdPut(c)
          \/ CS_Scale(c)
          \/ CS_Commit(c)
          \/ CS_CommitIO(c)

SpecWriteIO == InitWriteIO /\ [][NextWriteIO]_vars

\* the request of c ends in this step
Returns(c) == cs[c].pc # "idle" /\ cs'[c].pc = "idle"

\* C31 -- a create_session request whose pending put fails returns 500, and no
\* request returns 200 with a status other than the one stored in the Sessions
\* record it names.
C31_ReportedIsStored ==
    [][\A c \in Callers :
          /\ CS_PutIO(c) => cs'[c].code = 500
          /\ (Returns(c) /\ cs'[c].code = 200)
             => sessions'[cs'[c].rsid].status = cs'[c].rstatus]_vars

\* -------------------------------------- two requests and one group member
\* Seed: i-A is booting and i-B is not launched.  u1 and u2 call create_session,
\* once each, and the sessions are polled with get_session while the group
\* launches and boots its members; the pool-manager does not run, so no member
\* gets an available record.
InitCold ==
    /\ InitProgram
    /\ usage = [o \in Owners |-> 0]
    /\ InitCloud([i \in Instances |-> IF i = "iA" THEN "booting" ELSE "unlaunched"],
                 Cardinality(Fleet))

NextCold ==
    \/ \E c \in {"c1", "c2"} :
          /\ cs[c].owner = "none"
          /\ CS_Start(c, Requester[c], "pro", DEFAULT_PLAN_LIMITS("pro"))
    \/ \E c \in Callers :
          \/ CS_Existing(c)
          \/ CS_Put(c)
          \/ CS_Query(c)
          \/ CS_Cold(c)
          \/ CS_ColdPut(c)
          \/ CS_Scale(c)
          \/ CS_Commit(c)
    \/ \E g \in Pollers, s \in SessionIds : GS_Read(g, s)
    \/ \E g \in Pollers : GetSession(g)
    \/ \E i \in Instances : Boot(i)
    \/ \E i \in Instances : HealthPass(i)
    \/ \E i \in Fleet, p \in Plans : Launch(i, p)

SpecCold == InitCold /\ [][NextCold]_vars

\* the sessions whose request has written the pool record of group member i for
\* itself in the cold-start path and goes on, or has gone on, with i as its
\* instance
ColdHolders(i) ==
    {cs[c].sid : c \in {c \in Callers : cs[c].pc = "commit" /\ cs[c].kind # "none"
                                         /\ cs[c].inst = i}}
    \cup {cs[c].rsid : c \in {c \in Callers : cs[c].pc = "idle" /\ cs[c].code = 200
                                              /\ ~cs[c].reused /\ cs[c].rinst = i}}
    \cup {gs[g].sid : g \in {g \in Pollers : gs[g].pc \in {"live", "persist"}
                                             /\ gs[g].claimed = i}}

\* C32 -- of the requests that see the same group member as claimable in the
\* cold-start path (create_session or get_session), at most one ends up with it.
C32_OneGroupClaim ==
    \A i \in Instances : Cardinality(ColdHolders(i)) <= 1

\* ------------------------------------------------- a session in error
\* Seed: i-A and i-B are booting and the group is at its maximum.  u1 and u2 call
\* create_session, once each; the sessions are polled, kept alive and deleted
\* while the instances boot and the pool-manager runs.  Requests of the clients
\* and pool-manager cycles do not overlap.
InitError ==
    /\ InitProgram
    /\ usage = [o \in Owners |-> 0]
    /\ InitCloud([i \in Instances |-> "booting"], Cardinality(Fleet))

NextError ==
    \/ \E c \in {"c1", "c2"} :
          /\ Quiescent
          /\ cs[c].owner = "none"
          /\ CS_Start(c, Requester[c], "pro", DEFAULT_PLAN_LIMITS("pro"))
    \/ \E c \in Callers :
          \/ CS_Existing(c)
          \/ CS_Put(c)
          \/ CS_Query(c)
          \/ \E i \in Instances : CS_Claim(c, i)
          \/ CS_Cold(c)
          \/ CS_Scale(c)
          \/ CS_Commit(c)
    \/ \E g \in Pollers, s \in SessionIds : Quiescent /\ GS_Read(g, s)
    \/ \E g \in Pollers : GS_Live(g) \/ GS_Persist(g)
    \/ \E s \in SessionIds : Quiescent /\ DS_Begin(s, FALSE)
    \/ DeleteSession
    \/ \E s \in SessionIds : Quiescent /\ HB_Read(s, TRUE, FALSE)
    \/ Heartbeat
    \/ Quiescent /\ RC_Begin
    \/ Reconciler
    \/ \E i \in Instances : Boot(i)
    \/ \E i \in Instances : HealthPass(i)

SpecError == InitError /\ [][NextError]_vars

\* C33 -- error is a sink: no step changes the stored status of a session that
\* is in error.
C33_ErrorIsSink ==
    [][\A s \in SessionIds :
          sessions[s].status = "error" => sessions'[s].status = "error"]_vars

\* the record the sync pass creates for a member of tier p in cloud state st
Discovered(p, st) ==
    [NoPool EXCEPT !.status = IF st = "pending" THEN "starting" ELSE "available",
                   !.plan = p]

\* the record of i after the step is the one before it, but for a promotion of
\* its status to available (running and starting, or stopped and not assigned)
KeptBySync(i) ==
    /\ pool'[i] = [pool[i] EXCEPT !.status = pool'[i].status]
    /\ \/ pool'[i].status = pool[i].status
       \/ /\ pool'[i].status = "available"
          /\ \/ ec2[i] = "running" /\ pool[i].status = "starting"
             \/ ec2[i] = "stopped" /\ pool[i].status # "assigned"

\* C34 -- the sync pass of tier p creates a record (plan p; starting for a pending
\* instance, available for a running or stopped one) for the members of the
\* group that have no record, creates none for an instance outside the group,
\* and does not replace the record of a member that has one.
C34_SyncCreatesForUnrecorded ==
    [][\A p \in Plans : RC_Sync(p) =>
         \A i \in Instances :
            /\ (pool[i].status = "absent" /\ i \in GroupOf(p)
                  /\ ec2[i] \in {"pending", "running", "stopped"})
               => pool'[i] = Discovered(p, ec2[i])
            /\ (pool[i].status = "absent" /\ i \notin GroupOf(p))
               => pool'[i] = pool[i]
            /\ (pool[i].status # "absent" /\ i \in GroupOf(PlanOf(pool[i])))
               => KeptBySync(i)]_vars

\* ------------------------------------------------- rounds of the claim loop
\* Seed: i-A and i-B are warm.  u1 calls create_session once while u2 calls it
\* again and again and sessions are deleted (one client request at a time
\* besides u1's), and a group member may be terminated from outside at any time.
InitRounds ==
    /\ InitProgram
    /\ usage = [o \in Owners |-> 0]
    /\ InitCloud([i \in Instances |-> "warm"], Cardinality(Fleet))

NextRounds ==
    \/ /\ cs["c1"].owner = "none"
       /\ CS_Start("c1", "u1", "pro", DEFAULT_PLAN_LIMITS("pro"))
    \/ ds.pc = "idle" /\ CS_Start("c2", "u2", "pro", DEFAULT_PLAN_LIMITS("pro"))
    \/ \E c \in Callers : CreateSession(c)
    \/ \E s \in SessionIds : cs["c2"].pc = "idle" /\ DS_Begin(s, FALSE)
    \/ DeleteSession
    \/ \E i \in Instances : Depart(i)

SpecRounds == InitRounds /\ [][NextRounds]_vars

\* C35 -- in the claim loop the available-to-assigned write is made only for a
\* candidate the cloud reports running; a candidate that is not running is marked
\* unhealthy and left unclaimed, the request goes on with the next candidate (or
\* the next query, or the cold start), and there are at most 3 query rounds.
C35_ClaimOnlyRunning ==
    [][\A c \in Callers, i \in Instances : CS_Claim(c, i) =>
          /\ pool'[i].status = "assigned" => ec2[i] = "running"
          /\ ec2[i] # "running" =>
                /\ pool'[i] = [pool[i] EXCEPT !.status = "unhealthy"]
                /\ cs'[c].inst = "none"
                /\ IF cs[c].cands # {i}
                   THEN cs'[c].pc = "claim" /\ cs'[c].cands = cs[c].cands \ {i}
                   ELSE cs'[c].pc \in {"query", "cold"}
          /\ cs'[c].attempt < 3
          /\ cs'[c].pc = "query" => cs[c].attempt < 2]_vars

\* a request is in its third query round, after a candidate was marked
\* unhealthy, with a candidate that is not running any more
C35_Witness ==
    \E c \in Callers, i \in Instances :
        /\ cs[c].pc = "claim"
        /\ cs[c].attempt = 2
        /\ i \in cs[c].cands
        /\ ec2[i] # "running"
        /\ \E j \in Instances \ {i} : pool[j].status = "unhealthy"

\* ------------------------------------------------- a warm-pool start
\* Seed: i-A is parked (stopped, recorded stopping), i-B is not launched.  u1 and
\* u2 call create_session, once each, while the instances boot; a pool-manager
\* cycle starts only while no request is in flight.
InitWarm ==
    /\ InitProgram
    /\ usage = [o \in Owners |-> 0]
    /\ InitCloud([i \in Instances |-> IF i = "iA" THEN "parked" ELSE "unlaunched"],
                 Cardinality(Fleet))

NextWarm ==
    \/ \E c \in {"c1", "c2"} :
          /\ cs[c].owner = "none"
          /\ CS_Start(c, Requester[c], "pro", DEFAULT_PLAN_LIMITS("pro"))
    \/ \E c \in Callers :
          \/ CS_Existing(c)
          \/ CS_Put(c)
          \/ CS_Query(c)
          \/ \E i \in Instances : CS_Claim(c, i)
          \/ CS_Cold(c)
          \/ CS_ColdPut(c)
          \/ CS_Scale(c)
          \/ CS_Commit(c)
    \/ Quiescent /\ RC_Begin
    \/ Reconciler
    \/ \E i \in Instances : Boot(i)
    \/ \E i \in Instances : HealthPass(i)
    \/ \E i \in Fleet, p \in Plans : Launch(i, p)

SpecWarm == InitWarm /\ [][NextWarm]_vars

\* C36 -- an InstancePool record in status available names no session and no
\* owner.
C36_AvailableIsUnbound ==
    \A i \in Instances :
        pool[i].status = "available"
        => pool[i].session_id = 0 /\ pool[i].student_id = "none"

\* instance i is held by a session that is live before and after the step
HeldByLive(i) ==
    /\ pool[i].status \in {"assigned", "starting"}
    /\ pool[i].session_id # 0
    /\ sessions[pool[i].session_id].status \in ActiveStatuses
    /\ sessions'[pool[i].session_id].status \in ActiveStatuses

\* C37 -- a release on behalf of a session touches only an instance still bound
\* to that session: no step unbinds the pool record of an instance held by a
\* session that stays live, or stops that instance.
C37_ReleaseOnlyOwn ==
    [][\A i \in Instances :
          HeldByLive(i) => /\ pool'[i].session_id # 0
                           /\ pool'[i].status \in {"assigned", "starting"}
                           /\ ec2[i] = "running" => ec2'[i] # "stopping"]_vars

\* the sessions of owner o that have ended after running for the billable minimum
EndedBillable(o) ==
    {s \in SessionIds : /\ sessions[s].student_id = o
                        /\ sessions[s].status = "terminated"
                        /\ Billable(sessions[s].created_at, sessions[s].updated_at)}

\* C38 -- usage is recorded exactly once for each session that ran at least 30
\* seconds: while no invocation is in flight, the number of usage writes made
\* for an owner is the number of the owner's ended sessions of that length.
C38_UsageOncePerSession ==
    Quiescent => \A o \in Owners : usageCount[o] = Cardinality(EndedBillable(o))

\* C39 -- when get_session has claimed an instance for a provisioning session,
\* the stored Sessions record has that instance as its instance_id once the
\* request returns.
C39_ClaimIsStored ==
    [][\A g \in Pollers :
          (GS_Persist(g) /\ gs[g].claimed # "none")
          => sessions'[gs[g].sid].instance_id = gs[g].claimed]_vars

\* C40 -- focus mode holds end to end: a ready or active session whose latest
\* accepted heartbeat carried focus_mode = true is not terminated for
\* idle_timeout by any later step.
C40_FocusModeEffective ==
    [][\A s \in SessionIds :
          (s \in hist.focus /\ sessions[s].status \in Running)
          => ~(sessions'[s].status = "terminated"
               /\ sessions'[s].termination_reason = "idle_timeout")]_vars

====
